---- MODULE Spec2Model ----
(***************************************************************************)
(* StatusPing: the check pipeline (app/checker.py), the per-monitor jobs   *)
(* (app/scheduler.py) and the monitor management handlers                  *)
(* (app/routers/monitors.py), as one state machine.                        *)
(*                                                                         *)
(* Every coroutine is cut at its awaits: a step of the model is the code   *)
(* between two awaits that has an effect on the database, the job table or *)
(* the alert log.  A database session holds the rows it loaded (the        *)
(* session factory keeps them after a commit), so a tick works on the      *)
(* snapshot it read in its first step.                                     *)
(***************************************************************************)
EXTENDS Integers, Sequences, FiniteSets, TLC

VARIABLES
    monitors,       \* table monitors: id -> row (DOMAIN = the rows that exist)
    issued,         \* monitor ids handed out so far (uuid4: never reused)
    check_results,  \* table check_results, in insertion order
    incidents,      \* table incidents, in insertion order
    jobs,           \* scheduler job table: job id -> [interval]; the id of job
                    \* check_<monitor id> is written as the monitor id
    tick,           \* per job id: the running instance of the job
    pending,        \* per monitor id: handlers suspended at an await
    alerts,         \* the notifier's log (ALERT / RECOVERY lines, SMTP outcomes), in order
    now,            \* the wall clock: the last value datetime.now(timezone.utc) gave
    creating,       \* monitor id -> the row a create_monitor that has passed the
                    \* checks of the plan is about to insert
    manual,         \* per monitor id: the invocation of perform_check that a
                    \* manual trigger started
    next_run_time   \* per monitor id: the seconds from the present to the
                    \* next run time of job check_<monitor id>; kept by the
                    \* actions of the specification of due times, in which
                    \* time passes

vars == <<monitors, issued, check_results, incidents, jobs, tick, pending, alerts, now,
          creating, manual, next_run_time>>

(***************************************************************************)
(* Bounds and input sets                                                   *)
(***************************************************************************)
MaxChecks == 8      \* check_results rows the table may hold before ticks stop firing
MaxProbeChecks == 4 \* the same as MaxChecks, for the specification of the probe
MaxNotifyChecks == 5 \* the same, for the specification of the notifier
MaxRetentionChecks == 2 \* the same, for the specification of retention
MaxRowsChecks == 2  \* the same, for the specification of the life of a row
MaxBootChecks == 2  \* the same, for the specification of the start
MaxSchedulerChecks == 2 \* the same, for the specification of the scheduler
MaxIsolationChecks == 3 \* the same, for the specification of two monitors
MaxDurationChecks == 1 \* the same, for the specification of the downtime
MaxTenantChecks == 1 \* the same, for the specification of two users
MaxPauseChecks == 5 \* the same, for the specification of pausing
MaxFailureChecks == 9 \* the same, for the specification of failing commits
MaxManualChecks == 5 \* the same, for the specification of manual triggers
MaxDueChecks == 4  \* the same, for the specification of due times

MonitorIds == {"m1", "m2"}
Users      == {"u1", "u2", "u3"}
Names      == {"api"}
Intervals  == {60, 300}
Timeouts   == {30}
TimeUnit   == 150   \* seconds that pass in one step of time
StatusCodes == {200, 500}

\* Optional values: None, or a value wrapped in a one-element sequence.
None      == <<>>
Some(x)   == <<x>>
IsNone(o) == o = <<>>
Get(o)    == o[1]

Min(a, b) == IF a <= b THEN a ELSE b

(***************************************************************************)
(* Configuration                                                           *)
(***************************************************************************)
consecutive_failures_threshold == 3
ErrorTextLimit == 200

\* app/plans.py
PLAN_LIMITS ==
    [free     |-> [max_monitors |-> 5,      min_check_interval |-> 300,
                   retention_hours |-> 24,  features |-> {"email_alerts"}],
     pro      |-> [max_monitors |-> 50,     min_check_interval |-> 60,
                   retention_hours |-> 2160,
                   features |-> {"email_alerts", "webhook_alerts", "custom_branding",
                                 "ssl_monitoring"}],
     business |-> [max_monitors |-> 999999, min_check_interval |-> 30,
                   retention_hours |-> 8760,
                   features |-> {"email_alerts", "webhook_alerts", "custom_branding",
                                 "ssl_monitoring", "custom_domain", "team_members",
                                 "api_access"}]]

get_plan_limits(plan) ==
    IF plan \in DOMAIN PLAN_LIMITS THEN PLAN_LIMITS[plan] ELSE PLAN_LIMITS["free"]

\* table users: the plan of every user.  Signup creates users on the free
\* plan; the column is a string that is changed outside the application: u2
\* is on the pro plan, and the plan of u3 is no key of PLAN_LIMITS.
UserPlan ==
    [u \in Users |->
        CASE u = "u1" -> "free"
          [] u = "u2" -> "pro"
          [] OTHER    -> "enterprise"]


(***************************************************************************)
(* Rows                                                                    *)
(***************************************************************************)
\* app/models/monitor.py: a new row, with the column defaults
NewMonitor(user, name, interval, timeout, expected) ==
    [user_id |-> user, name |-> name, check_interval |-> interval,
     timeout |-> timeout, expected_status_code |-> expected,
     is_active |-> TRUE, current_status |-> "unknown",
     consecutive_failures |-> 0, last_checked_at |-> None]

\* the rows of a table that belong to monitor m, in insertion order
RowsOf(table, m) == SelectSeq(table, LAMBDA r : r.monitor_id = m)

OngoingOf(table, m) ==
    SelectSeq(table, LAMBDA r : r.monitor_id = m /\ r.status = "ongoing")

(***************************************************************************)
(* Probe: one HTTP request and its classification (perform_check, the try  *)
(* block).  An HTTP result is a response or one of the exceptions the      *)
(* request can raise; the text of an exception is kept by its length.      *)
(* Leaving the client's context manager after a response is taken to       *)
(* succeed.                                                                *)
(***************************************************************************)
Responses(codes, elapsed) ==
    [kind : {"response"}, status_code : codes, elapsed_ms : elapsed]

Exceptions(lens) ==
    [kind : {"TimeoutException"}]
        \cup [kind : {"ConnectError", "RequestError", "Exception"}, text_len : lens]

\* str(e)[:200], by length
Truncate(len) == Min(len, ErrorTextLimit)

\* variant: any response counts as up
classify_response_any_status(monitor, r) ==
    [raised |-> FALSE, status |-> "up",
     status_code |-> Some(r.status_code),
     response_time_ms |-> Some(r.elapsed_ms),
     error_message |-> None]

\* lines 44-56: a response came
classify_response(monitor, r) ==
    IF r.status_code # monitor.expected_status_code
    THEN [raised |-> FALSE, status |-> "down",
          status_code |-> Some(r.status_code),
          response_time_ms |-> Some(r.elapsed_ms),
          error_message |-> Some(<<"Expected status ", monitor.expected_status_code,
                                   ", got ", r.status_code>>)]
    ELSE [raised |-> FALSE, status |-> "up",
          status_code |-> Some(r.status_code),
          response_time_ms |-> Some(r.elapsed_ms),
          error_message |-> None]

\* variant: no handler for exceptions other than httpx's
classify_exception_no_catch_all(monitor, r) ==
    [raised |-> r.kind = "Exception", status |-> "down",
     status_code |-> None, response_time_ms |-> None,
     error_message |->
         CASE r.kind = "TimeoutException" ->
                  Some(<<"Request timed out after ", monitor.timeout, "s">>)
           [] r.kind = "ConnectError" ->
                  Some(<<"Connection failed: ", Truncate(r.text_len)>>)
           [] r.kind = "RequestError" ->
                  Some(<<"Request error: ", Truncate(r.text_len)>>)
           [] OTHER -> None]

\* lines 57-68: the request raised; the handlers in the order of the code
classify_exception(monitor, r) ==
    [raised |-> FALSE, status |-> "down",
     status_code |-> None, response_time_ms |-> None,
     error_message |->
         CASE r.kind = "TimeoutException" ->
                  Some(<<"Request timed out after ", monitor.timeout, "s">>)
           [] r.kind = "ConnectError" ->
                  Some(<<"Connection failed: ", Truncate(r.text_len)>>)
           [] r.kind = "RequestError" ->
                  Some(<<"Request error: ", Truncate(r.text_len)>>)
           [] OTHER ->
                  Some(<<"Unexpected error: ", Truncate(r.text_len)>>)]

\* lines 33-68: raised is whether an exception leaves the try block
probe(monitor, r) ==
    IF r.kind = "response"
    THEN classify_response(monitor, r)
    ELSE classify_exception(monitor, r)

(***************************************************************************)
(* The consecutive-failure state machine (perform_check, lines 85-94)      *)
(***************************************************************************)
\* variant: the comparison is off by one
reaches_threshold_off_by_one(failures) == failures >= consecutive_failures_threshold - 1

\* variant: the monitor goes down one failure after the threshold
reaches_threshold_exceeded(failures) == failures > consecutive_failures_threshold

reaches_threshold(failures) == failures >= consecutive_failures_threshold

\* variant: a failing probe marks the monitor down at once
apply_outcome_down_at_once(monitor, check_status, at) ==
    [monitor EXCEPT
        !.last_checked_at = Some(at),
        !.consecutive_failures = IF check_status = "down" THEN @ + 1 ELSE 0,
        !.current_status = check_status]

\* variant: an up result leaves the failure count as it is
apply_outcome_keeps_count(monitor, check_status, at) ==
    IF check_status = "down"
    THEN [monitor EXCEPT
            !.last_checked_at = Some(at),
            !.consecutive_failures = @ + 1,
            !.current_status =
                IF reaches_threshold(monitor.consecutive_failures + 1)
                THEN "down" ELSE @]
    ELSE [monitor EXCEPT
            !.last_checked_at = Some(at),
            !.current_status = "up"]

\* variant: a failure below the threshold makes the status unknown again
apply_outcome_back_to_unknown(monitor, check_status, at) ==
    IF check_status = "down"
    THEN [monitor EXCEPT
            !.last_checked_at = Some(at),
            !.consecutive_failures = @ + 1,
            !.current_status =
                IF reaches_threshold(monitor.consecutive_failures + 1)
                THEN "down" ELSE "unknown"]
    ELSE [monitor EXCEPT
            !.last_checked_at = Some(at),
            !.consecutive_failures = 0,
            !.current_status = "up"]

\* the session's monitor object after lines 83-94
apply_outcome(monitor, check_status, at) ==
    IF check_status = "down"
    THEN [monitor EXCEPT
            !.last_checked_at = Some(at),
            !.consecutive_failures = @ + 1,
            !.current_status =
                IF reaches_threshold(monitor.consecutive_failures + 1)
                THEN "down" ELSE @]
    ELSE [monitor EXCEPT
            !.last_checked_at = Some(at),
            !.consecutive_failures = 0,
            !.current_status = "up"]

\* variant: last_checked_at is not part of the UPDATE
flush_monitor_without_last_checked(row, loaded, changed) ==
    [row EXCEPT
        !.consecutive_failures =
            IF changed.consecutive_failures = loaded.consecutive_failures THEN @
            ELSE changed.consecutive_failures,
        !.current_status =
            IF changed.current_status = loaded.current_status THEN @
            ELSE changed.current_status]

\* commit of the session's monitor object: the UPDATE sets the columns whose
\* value differs from the one the session loaded, and leaves the others as
\* they are in the table
flush_monitor(row, loaded, changed) ==
    [row EXCEPT
        !.last_checked_at =
            IF changed.last_checked_at = loaded.last_checked_at THEN @
            ELSE changed.last_checked_at,
        !.consecutive_failures =
            IF changed.consecutive_failures = loaded.consecutive_failures THEN @
            ELSE changed.consecutive_failures,
        !.current_status =
            IF changed.current_status = loaded.current_status THEN @
            ELSE changed.current_status]

(***************************************************************************)
(* Notifier (_send_down_alert, _send_recovery_alert): the alert log line   *)
(***************************************************************************)
\* variant: the owner and the plan are not looked at
has_email_alerts_always(monitor) == TRUE

\* lines 163-170 and 238-245: the owner is found and the plan has the feature
has_email_alerts(monitor) ==
    /\ monitor.user_id \in Users
    /\ "email_alerts" \in get_plan_limits(UserPlan[monitor.user_id]).features

send_down_alert(log, m, monitor, error_message) ==
    IF has_email_alerts(monitor)
    THEN Append(log, [kind |-> "down", monitor_id |-> m, to |-> monitor.user_id,
                      name |-> monitor.name,
                      error |-> IF IsNone(error_message) THEN Some(<<"Unknown">>)
                                ELSE error_message])
    ELSE log

\* variant: the minutes and the hours are printed when they are zero
format_duration_keeps_zero(total_seconds) ==
    IF total_seconds < 60 THEN <<[n |-> total_seconds, unit |-> "s"]>>
    ELSE IF total_seconds < 3600 THEN <<[n |-> total_seconds \div 60, unit |-> "m"]>>
    ELSE IF total_seconds < 86400
         THEN <<[n |-> total_seconds \div 3600, unit |-> "h"],
                [n |-> (total_seconds % 3600) \div 60, unit |-> "m"]>>
         ELSE <<[n |-> total_seconds \div 86400, unit |-> "d"],
                [n |-> (total_seconds % 86400) \div 3600, unit |-> "h"]>>

\* _format_duration, lines 335-350, of a duration in whole seconds.  The
\* string is kept as its parts, which the code joins with a space: "2h 5m"
\* is <<[n |-> 2, unit |-> "h"], [n |-> 5, unit |-> "m"]>>.
format_duration(total_seconds) ==
    IF total_seconds < 60 THEN <<[n |-> total_seconds, unit |-> "s"]>>
    ELSE IF total_seconds < 3600
         THEN LET minutes == total_seconds \div 60
              IN <<[n |-> minutes, unit |-> "m"]>>
    ELSE IF total_seconds < 86400
         THEN LET hours   == total_seconds \div 3600
                  minutes == (total_seconds % 3600) \div 60
              IN IF minutes # 0
                 THEN <<[n |-> hours, unit |-> "h"], [n |-> minutes, unit |-> "m"]>>
                 ELSE <<[n |-> hours, unit |-> "h"]>>
         ELSE LET days  == total_seconds \div 86400
                  hours == (total_seconds % 86400) \div 3600
              IN IF hours # 0
                 THEN <<[n |-> days, unit |-> "d"], [n |-> hours, unit |-> "h"]>>
                 ELSE <<[n |-> days, unit |-> "d"]>>

\* lines 247-250: the downtime is logged as _format_duration prints it
send_recovery_alert(log, m, monitor, duration) ==
    IF has_email_alerts(monitor)
    THEN Append(log, [kind |-> "recovery", monitor_id |-> m, to |-> monitor.user_id,
                      name |-> monitor.name, duration |-> duration,
                      downtime |-> format_duration(duration)])
    ELSE log

(***************************************************************************)
(* Scheduler (app/scheduler.py)                                            *)
(***************************************************************************)
\* variant: a job that exists is kept as it is (replace_existing is not given)
schedule_monitor_keep_existing(table, m, interval) ==
    [k \in DOMAIN table \cup {m} |->
        IF k = m /\ m \notin DOMAIN table THEN [interval |-> interval] ELSE table[k]]

\* add_job(id = check_<m>, replace_existing = True, max_instances = 1)
schedule_monitor(table, m, interval) ==
    [k \in DOMAIN table \cup {m} |->
        IF k = m THEN [interval |-> interval] ELSE table[k]]

\* variant: remove_job is not inside a try block
unschedule_monitor_no_handler(table, m) ==
    [raised |-> m \notin DOMAIN table,
     table  |-> [k \in DOMAIN table \ {m} |-> table[k]]]

\* variant: the job is left in the store
unschedule_monitor_keeps_job(table, m) ==
    [raised |-> FALSE, table |-> table]

\* remove_job(check_<m>) raises JobLookupError when there is no such job; the
\* exception is caught.  raised is whether an exception leaves the function.
unschedule_monitor(table, m) ==
    [raised |-> FALSE,
     table  |-> [k \in DOMAIN table \ {m} |-> table[k]]]

\* schedule_monitor, line 54
max_instances == 1

\* the instances of a job that the executor has running
running_instances(instance) == IF instance = [pc |-> "idle"] THEN 0 ELSE 1

\* variant: the executor takes an instance whatever is running
has_free_instance_always(instance) == TRUE

\* the executor takes a new instance of a job only below max_instances
has_free_instance(instance) == running_instances(instance) < max_instances

\* start_scheduler, lines 34-39: the job of the pruner and its id
prune_job_id == "prune_old_results"

prune_job == [interval |-> 1 * 3600]

JobIds == MonitorIds \cup {prune_job_id}

Idle == [pc |-> "idle"]

\* start_scheduler, lines 20-39: a job for every active monitor, in the order
\* of the result of the query, then the job of the pruner
RECURSIVE schedule_all(_, _, _)
schedule_all(table, rows, ms) ==
    IF ms = {} THEN table
    ELSE LET m == CHOOSE k \in ms : TRUE
         IN schedule_all(schedule_monitor(table, m, rows[m].check_interval),
                         rows, ms \ {m})

\* variant: the query does not filter on is_active
active_monitors_all(rows) == DOMAIN rows

\* start_scheduler, lines 21-24
active_monitors(rows) == {m \in DOMAIN rows : rows[m].is_active}

start_scheduler_jobs(table, rows) ==
    LET checks == schedule_all(table, rows, active_monitors(rows))
    IN [k \in DOMAIN checks \cup {prune_job_id} |->
           IF k = prune_job_id THEN prune_job ELSE checks[k]]

(***************************************************************************)
(* Initial state: the application has started on an empty database.        *)
(***************************************************************************)
Init ==
    /\ monitors = [k \in {} |-> None]
    /\ issued = {}
    /\ check_results = <<>>
    /\ incidents = <<>>
    /\ jobs = start_scheduler_jobs([k \in {} |-> None], monitors)
    /\ tick = [j \in JobIds |-> Idle]
    /\ pending = [m \in MonitorIds |-> {}]
    /\ alerts = <<>>
    /\ creating = [k \in {} |-> None]
    /\ manual = [m \in MonitorIds |-> Idle]
    /\ next_run_time = [m \in MonitorIds |-> 0]
    /\ now = 0

\* The database a start can find: monitors of the pro user, active or paused.
BootRows ==
    {[NewMonitor("u2", name, interval, timeout, 200) EXCEPT !.is_active = active] :
        name \in Names, interval \in Intervals, timeout \in Timeouts,
        active \in BOOLEAN}

BootTables == UNION {[ids -> BootRows] : ids \in SUBSET MonitorIds}

\* The state before start_scheduler: the process has come up on a database.
InitBoot ==
    /\ monitors \in BootTables
    /\ issued = DOMAIN monitors
    /\ check_results = <<>>
    /\ incidents = <<>>
    /\ jobs = [k \in {} |-> None]
    /\ tick = [j \in JobIds |-> Idle]
    /\ pending = [m \in MonitorIds |-> {}]
    /\ alerts = <<>>
    /\ creating = [k \in {} |-> None]
    /\ manual = [m \in MonitorIds |-> Idle]
    /\ next_run_time = [m \in MonitorIds |-> 0]
    /\ now = 0

\* whether start_scheduler has run (it adds the job of the pruner)
scheduler_running == prune_job_id \in DOMAIN jobs

\* lifespan: start_scheduler runs once, before the application serves
start_scheduler ==
    /\ ~scheduler_running
    /\ jobs' = start_scheduler_jobs(jobs, monitors)
    /\ UNCHANGED <<monitors, issued, check_results, incidents, tick, pending, alerts, now, creating, manual,
                   next_run_time>>

\* datetime.now(timezone.utc): the time that has passed since the last reading
\* is one of `delays'
clock_readings(delays) == {now + d : d \in delays}

(***************************************************************************)
(* A tick: one run of job check_<m>, i.e. perform_check(m)                 *)
(***************************************************************************)
\* The scheduler starts an instance of job check_<m>.  max_instances = 1: a
\* tick that comes due while the previous instance runs is skipped.
Fire(m, maxchecks) ==
    /\ m \in DOMAIN jobs
    /\ has_free_instance(tick[m])
    /\ Len(check_results) < maxchecks
    /\ tick' = [tick EXCEPT ![m] = [pc |-> "start"]]
    /\ UNCHANGED <<monitors, issued, check_results, incidents, jobs, pending, alerts, now, creating, manual,
                   next_run_time>>

\* variant: is_active is not looked at
is_checkable_ignores_active(table, m) == m \in DOMAIN table

\* perform_check, lines 28-31: the monitor the tick goes on with
is_checkable(table, m) == m \in DOMAIN table /\ table[m].is_active

perform_check_load(m) ==
    /\ tick[m].pc = "start"
    /\ tick' = [tick EXCEPT ![m] =
                   IF is_checkable(monitors, m)
                   THEN [pc |-> "probing", monitor |-> monitors[m]]
                   ELSE Idle]
    /\ UNCHANGED <<monitors, issued, check_results, incidents, jobs, pending, alerts, now, creating, manual,
                   next_run_time>>

\* variant: the two branches are taken for each other
transition_kind_swapped(previous_status, new_status) ==
    IF previous_status = new_status THEN "none"
    ELSE IF previous_status = "up" /\ new_status = "down" THEN "resolve"
    ELSE IF previous_status = "down" /\ new_status = "up" THEN "open"
    ELSE "none"

\* variant: every tick that ends down opens an incident
transition_kind_every_down(previous_status, new_status) ==
    IF new_status = "down" THEN "open"
    ELSE IF previous_status = "down" /\ new_status = "up" THEN "resolve"
    ELSE "none"

\* variant: a monitor that was never seen up is taken to have been up
transition_kind_unknown_as_up(previous_status, new_status) ==
    IF previous_status = new_status THEN "none"
    ELSE IF previous_status \in {"up", "unknown"} /\ new_status = "down" THEN "open"
    ELSE IF previous_status = "down" /\ new_status = "up" THEN "resolve"
    ELSE "none"

\* variant: a down result of a monitor that is down opens an incident again
transition_kind_repeats_down(previous_status, new_status) ==
    IF previous_status \in {"up", "down"} /\ new_status = "down" THEN "open"
    ELSE IF previous_status = "down" /\ new_status = "up" THEN "resolve"
    ELSE "none"

\* variant: a recovery is not acted on
transition_kind_opens_only(previous_status, new_status) ==
    IF previous_status = "up" /\ new_status = "down" THEN "open" ELSE "none"

\* _handle_status_transition, lines 113-132: the branch taken
transition_kind(previous_status, new_status) ==
    IF previous_status = new_status THEN "none"
    ELSE IF previous_status = "up" /\ new_status = "down" THEN "open"
    ELSE IF previous_status = "down" /\ new_status = "up" THEN "resolve"
    ELSE "none"

\* perform_check, lines 33-68: the request returns or raises and is classified.
\* An exception that leaves the try block ends the tick.
perform_check_request(m, results) ==
    /\ tick[m].pc = "probing"
    /\ \E r \in results :
         LET out == probe(tick[m].monitor, r)
         IN tick' = [tick EXCEPT ![m] =
                        IF out.raised THEN Idle
                        ELSE [pc |-> "recording", monitor |-> tick[m].monitor,
                              http |-> r, out |-> out]]
    /\ UNCHANGED <<monitors, issued, check_results, incidents, jobs, pending, alerts, now, creating, manual,
                   next_run_time>>

\* lines 71-78
new_check_result(m, out, at) ==
    [monitor_id |-> m, status_code |-> out.status_code,
     response_time_ms |-> out.response_time_ms, status |-> out.status,
     error_message |-> out.error_message, checked_at |-> at]

\* perform_check, lines 70-101: the result row and the monitor's new fields are
\* committed in one transaction.  When the monitor row was deleted since the
\* tick loaded it, the UPDATE matches no row, the commit raises and the
\* transaction is rolled back.  Without a transition to handle the tick ends.
perform_check_record(m, delays) ==
    /\ tick[m].pc = "recording"
    /\ \E at \in clock_readings(delays) :
         LET loaded  == tick[m].monitor
             out     == tick[m].out
             changed == apply_outcome(loaded, out.status, at)
             kind    == transition_kind(loaded.current_status, changed.current_status)
         IN IF m \notin DOMAIN monitors
            THEN /\ tick' = [tick EXCEPT ![m] = Idle]
                 /\ UNCHANGED <<monitors, check_results, now>>
            ELSE /\ check_results' = Append(check_results, new_check_result(m, out, at))
                 /\ monitors' = [monitors EXCEPT ![m] = flush_monitor(@, loaded, changed)]
                 /\ now' = at
                 /\ tick' = [tick EXCEPT ![m] =
                                IF kind = "none" THEN Idle
                                ELSE [pc |-> "transition", monitor |-> changed,
                                      previous_status |-> loaded.current_status,
                                      error_message |-> out.error_message]]
    /\ UNCHANGED <<issued, incidents, jobs, pending, alerts, creating, manual,
                   next_run_time>>

\* f"{monitor.name} is down"
incident_title(name) == <<name, " is down">>

new_incident(m, monitor, error_message, at) ==
    [monitor_id |-> m, title |-> incident_title(monitor.name), status |-> "ongoing",
     started_at |-> at, resolved_at |-> None, error_message |-> error_message]

\* variant: the UPDATE does not filter on the monitor
resolve_incidents_of_all(table, m, at) ==
    [i \in DOMAIN table |->
        IF table[i].status = "ongoing"
        THEN [table[i] EXCEPT !.status = "resolved", !.resolved_at = Some(at)]
        ELSE table[i]]

\* variant: resolved_at is not set
resolve_incidents_no_time(table, m, at) ==
    [i \in DOMAIN table |->
        IF table[i].monitor_id = m /\ table[i].status = "ongoing"
        THEN [table[i] EXCEPT !.status = "resolved"]
        ELSE table[i]]

\* variant: the ongoing incidents of the monitor are deleted
resolve_incidents_deletes(table, m, at) ==
    SelectSeq(table, LAMBDA row : ~(row.monitor_id = m /\ row.status = "ongoing"))

\* lines 134-145: every ongoing incident of the monitor becomes resolved
resolve_incidents(table, m, at) ==
    [i \in DOMAIN table |->
        IF table[i].monitor_id = m /\ table[i].status = "ongoing"
        THEN [table[i] EXCEPT !.status = "resolved", !.resolved_at = Some(at)]
        ELSE table[i]]

\* variant: the downtime is counted from the incident that was opened last
downtime_start_of_last(ongoing_incidents) ==
    ongoing_incidents[Len(ongoing_incidents)].started_at

\* lines 147-151: ongoing_incidents[0].started_at.  The query has no ORDER BY;
\* SQLite, the database of app/config.py, finds the rows through the index on
\* monitor_id and returns them in the order of their insertion.
downtime_start(ongoing_incidents) == ongoing_incidents[1].started_at

\* _handle_status_transition, lines 116-156: the incident rows are committed;
\* the alert is sent after the commit.  The incident of a monitor whose row is
\* gone is stored when the database does not enforce the foreign key (SQLite's
\* default) and rejected when it does: the commit raises and the tick ends.
handle_status_transition(m, delays) ==
    /\ tick[m].pc = "transition"
    /\ \E at \in clock_readings(delays) :
        LET t    == tick[m]
            kind == transition_kind(t.previous_status, t.monitor.current_status)
            ongoing_incidents == OngoingOf(incidents, m)
        IN /\ now' = at
           /\ CASE kind = "open" ->
                 \E fk_enforced \in BOOLEAN :
                    IF m \notin DOMAIN monitors /\ fk_enforced
                    THEN /\ UNCHANGED incidents
                         /\ tick' = [tick EXCEPT ![m] = Idle]
                    ELSE /\ incidents' = Append(incidents,
                                new_incident(m, t.monitor, t.error_message, at))
                         /\ tick' = [tick EXCEPT ![m] =
                                [pc |-> "alert", monitor |-> t.monitor,
                                 alert |-> [kind |-> "down",
                                            error_message |-> t.error_message]]]
                [] kind = "resolve" ->
                    /\ incidents' = resolve_incidents(incidents, m, at)
                    /\ tick' = [tick EXCEPT ![m] =
                            IF Len(ongoing_incidents) > 0
                            THEN [pc |-> "alert", monitor |-> t.monitor,
                                  alert |-> [kind |-> "recovery",
                                             duration |->
                                                at - downtime_start(ongoing_incidents)]]
                            ELSE Idle]
                [] OTHER ->
                    /\ UNCHANGED incidents
                    /\ tick' = [tick EXCEPT ![m] = Idle]
    /\ UNCHANGED <<monitors, issued, check_results, jobs, pending, alerts, creating, manual,
                   next_run_time>>

\* perform_check, line 96, when the commit raises (the database is locked,
\* the disk is full): the session is left without a commit, the result row
\* and the new fields of the monitor are dropped with the readings of the
\* clock they carry, the tick ends
perform_check_record_fails(m) ==
    /\ tick[m].pc = "recording"
    /\ tick' = [tick EXCEPT ![m] = Idle]
    /\ UNCHANGED <<monitors, issued, check_results, incidents, jobs, pending, alerts,
                   now, creating, manual,
                   next_run_time>>

\* _handle_status_transition, lines 126 and 145, when the commit raises: the
\* incident that was added, or the resolution of the ongoing incidents, is
\* dropped; the tick ends before the alert
handle_status_transition_fails(m) ==
    /\ tick[m].pc = "transition"
    /\ tick' = [tick EXCEPT ![m] = Idle]
    /\ UNCHANGED <<monitors, issued, check_results, incidents, jobs, pending, alerts,
                   now, creating, manual,
                   next_run_time>>

\* variant: the SMTP attempt is not inside a try block
deliver_no_handler(log, to, smtp_configured, outcome) ==
    IF ~smtp_configured THEN [raised |-> FALSE, log |-> log]
    ELSE IF outcome = "sent"
         THEN [raised |-> FALSE, log |-> Append(log, [kind |-> "sent", to |-> to])]
         ELSE [raised |-> TRUE, log |-> log]

\* lines 178-231 and 252-302: the SMTP attempt, made only when credentials are
\* configured.  outcome is what aiosmtplib.send does; a failure is caught and
\* logged.  raised is whether an exception leaves the notifier.
deliver(log, to, smtp_configured, outcome) ==
    IF ~smtp_configured THEN [raised |-> FALSE, log |-> log]
    ELSE IF outcome = "sent"
         THEN [raised |-> FALSE, log |-> Append(log, [kind |-> "sent", to |-> to])]
         ELSE [raised |-> FALSE, log |-> Append(log, [kind |-> "failed", to |-> to])]

\* _send_down_alert, _send_recovery_alert: the owner and the plan are looked
\* up, the alert is logged and delivered.  The tick ends, with the exception
\* of the notifier if one leaves it.
send_alert(m, smtp, deliveries) ==
    /\ tick[m].pc = "alert"
    /\ \E smtp_configured \in smtp, outcome \in deliveries :
        LET t      == tick[m]
            logged == IF t.alert.kind = "down"
                      THEN send_down_alert(alerts, m, t.monitor, t.alert.error_message)
                      ELSE send_recovery_alert(alerts, m, t.monitor, t.alert.duration)
        IN alerts' = IF has_email_alerts(t.monitor)
                     THEN deliver(logged, t.monitor.user_id, smtp_configured, outcome).log
                     ELSE alerts
    /\ tick' = [tick EXCEPT ![m] = Idle]
    /\ UNCHANGED <<monitors, issued, check_results, incidents, jobs, pending, now, creating, manual,
                   next_run_time>>

(***************************************************************************)
(* Monitor management (app/routers/monitors.py).  A handler that awaits    *)
(* between its commit and its call of the scheduler is two steps.          *)
(***************************************************************************)
\* variant: the query does not filter on the user
find_monitor_of_any_user(table, m, user) == m \in DOMAIN table

\* select(Monitor).where(Monitor.id == monitor_id, Monitor.user_id == user.id),
\* lines 90-93, 110-113, 140-143, 219-222, 264-267: whether a row is found
find_monitor(table, m, user) == m \in DOMAIN table /\ table[m].user_id = user

\* list_monitors, lines 24-30: the monitors in the answer
list_monitors(table, user) == {m \in DOMAIN table : table[m].user_id = user}

\* get_monitor, lines 90-99
get_monitor(table, m, user) ==
    IF find_monitor(table, m, user)
    THEN [status |-> 200, monitor |-> table[m]]
    ELSE [status |-> 404]

\* get_check_results, lines 110-131: the results of the monitor since the
\* cutoff (the order and the limit of the answer are left out)
get_check_results(table, results, m, user, hours, at) ==
    IF find_monitor(table, m, user)
    THEN LET cutoff == at - Min(hours, get_plan_limits(UserPlan[user]).retention_hours)
         IN [status |-> 200,
             results |-> SelectSeq(RowsOf(results, m),
                                   LAMBDA r : r.checked_at >= cutoff)]
    ELSE [status |-> 404]

\* get_uptime_stats, lines 140-209, for one of the periods: the results of
\* the monitor in the period, those that are up, and its incidents
get_uptime_stats(table, results, incs, m, user, delta, at) ==
    IF find_monitor(table, m, user)
    THEN LET counted == SelectSeq(RowsOf(results, m),
                                  LAMBDA r : r.checked_at >= at - delta)
         IN [status |-> 200, monitor_id |-> m,
             total |-> Len(counted),
             up_count |-> Len(SelectSeq(counted, LAMBDA r : r.status = "up")),
             incidents |-> RowsOf(incs, m)]
    ELSE [status |-> 404]

\* lines 39-58 and 229-236: the plan's answer to a request
plan_forbids_count(user) ==
    Cardinality({k \in DOMAIN monitors : monitors[k].user_id = user})
        >= get_plan_limits(UserPlan[user]).max_monitors

\* variant: the interval is compared with the minimum of the business plan
plan_forbids_interval_of_business(user, interval) ==
    interval < PLAN_LIMITS["business"].min_check_interval

plan_forbids_interval(user, interval) ==
    interval < get_plan_limits(UserPlan[user]).min_check_interval

\* create_monitor, lines 39-58: the monitors of the user are counted and the
\* request is answered 403 or goes on to insert its row.  The handler awaits
\* between the count and the commit.
create_monitor_count(ids, users, intervals, expected_codes) ==
    \E m \in ids \ issued, user \in users, name \in Names, interval \in intervals,
       timeout \in Timeouts, expected \in expected_codes :
        IF plan_forbids_count(user) \/ plan_forbids_interval(user, interval)
        THEN UNCHANGED vars
        ELSE /\ issued' = issued \cup {m}
             /\ creating' = [k \in DOMAIN creating \cup {m} |->
                                IF k = m
                                THEN NewMonitor(user, name, interval, timeout, expected)
                                ELSE creating[k]]
             /\ UNCHANGED <<monitors, check_results, incidents, jobs, tick, pending,
                            alerts, now, manual,
                   next_run_time>>

\* create_monitor, lines 60-71: the row is inserted and committed
create_monitor_commit(m) ==
    /\ m \in DOMAIN creating
    /\ monitors' = [k \in DOMAIN monitors \cup {m} |->
                       IF k = m THEN creating[m] ELSE monitors[k]]
    /\ creating' = [k \in DOMAIN creating \ {m} |-> creating[k]]
    /\ pending' = [pending EXCEPT ![m] = @ \cup {"create"}]
    /\ UNCHANGED <<issued, check_results, incidents, jobs, tick, alerts, now, manual,
                   next_run_time>>

\* create_monitor, lines 39-71, when no other request of the user commits
\* between the count and the commit: 403, or the new row is committed
create_monitor(ids, users, intervals, expected_codes) ==
    \E m \in ids \ issued, user \in users, name \in Names, interval \in intervals,
       timeout \in Timeouts, expected \in expected_codes :
        IF plan_forbids_count(user) \/ plan_forbids_interval(user, interval)
        THEN UNCHANGED vars
        ELSE /\ monitors' = [k \in DOMAIN monitors \cup {m} |->
                                IF k = m
                                THEN NewMonitor(user, name, interval, timeout, expected)
                                ELSE monitors[k]]
             /\ issued' = issued \cup {m}
             /\ pending' = [pending EXCEPT ![m] = @ \cup {"create"}]
             /\ UNCHANGED <<check_results, incidents, jobs, tick, alerts, now, creating, manual,
                   next_run_time>>

\* create_monitor, lines 72-79: refresh, then schedule the new monitor
create_monitor_schedule(m) ==
    /\ "create" \in pending[m]
    /\ pending' = [pending EXCEPT ![m] = @ \ {"create"}]
    /\ jobs' = IF m \in DOMAIN monitors
               THEN schedule_monitor(jobs, m, monitors[m].check_interval)
               ELSE jobs
    /\ UNCHANGED <<monitors, issued, check_results, incidents, tick, alerts, now, creating, manual,
                   next_run_time>>

\* MonitorUpdate bodies (exclude_unset: only the fields of the request)
UpdateBodies ==
    [is_active : BOOLEAN] \cup [check_interval : Intervals]

\* variant: a monitor that is paused or resumed starts over as unknown
apply_update_resets_status(row, body) ==
    [f \in DOMAIN row |->
        IF f \in DOMAIN body THEN body[f]
        ELSE IF "is_active" \in DOMAIN body /\ f = "current_status" THEN "unknown"
        ELSE IF "is_active" \in DOMAIN body /\ f = "consecutive_failures" THEN 0
        ELSE row[f]]

\* update_monitor, lines 238-240
apply_update(row, body) ==
    [f \in DOMAIN row |-> IF f \in DOMAIN body THEN body[f] ELSE row[f]]

\* update_monitor, lines 219-242, for the request of a user: 404 (no step),
\* 403, or the changed fields are committed
update_monitor_with(m, user, bodies) ==
    /\ find_monitor(monitors, m, user)
    /\ \E body \in bodies :
        IF "check_interval" \in DOMAIN body
           /\ plan_forbids_interval(user, body.check_interval)
        THEN UNCHANGED vars
        ELSE /\ monitors' = [monitors EXCEPT ![m] = apply_update(@, body)]
             /\ pending' = [pending EXCEPT ![m] = @ \cup {"update"}]
             /\ UNCHANGED <<issued, check_results, incidents, jobs, tick, alerts, now,
                            creating, manual,
                   next_run_time>>

update_monitor_by(m, user) == update_monitor_with(m, user, UpdateBodies)

update_monitor(m) == \E user \in Users : update_monitor_by(m, user)

\* update_monitor, lines 243-253: refresh, then schedule or unschedule (an
\* exception of either would be caught here)
update_monitor_schedule(m) ==
    /\ "update" \in pending[m]
    /\ pending' = [pending EXCEPT ![m] = @ \ {"update"}]
    /\ jobs' = IF m \notin DOMAIN monitors THEN jobs
               ELSE IF monitors[m].is_active
                    THEN schedule_monitor(jobs, m, monitors[m].check_interval)
                    ELSE unschedule_monitor(jobs, m).table
    /\ UNCHANGED <<monitors, issued, check_results, incidents, tick, alerts, now, creating, manual,
                   next_run_time>>

\* delete_monitor, lines 264-278, for the request of a user: 404 (no step),
\* or the job is removed (an exception of unschedule_monitor would be caught
\* here)
delete_monitor_by(m, user) ==
    /\ find_monitor(monitors, m, user)
    /\ jobs' = unschedule_monitor(jobs, m).table
    /\ pending' = [pending EXCEPT ![m] = @ \cup {"delete"}]
    /\ UNCHANGED <<monitors, issued, check_results, incidents, tick, alerts, now,
                   creating, manual,
                   next_run_time>>

delete_monitor(m) == \E user \in Users : delete_monitor_by(m, user)

\* delete_monitor, lines 280-281: the row goes, with its results and incidents
\* (relationship cascade "all, delete-orphan")
delete_monitor_commit(m) ==
    /\ "delete" \in pending[m]
    /\ pending' = [pending EXCEPT ![m] = @ \ {"delete"}]
    /\ IF m \in DOMAIN monitors
       THEN /\ monitors' = [k \in DOMAIN monitors \ {m} |-> monitors[k]]
            /\ check_results' = SelectSeq(check_results, LAMBDA r : r.monitor_id # m)
            /\ incidents' = SelectSeq(incidents, LAMBDA r : r.monitor_id # m)
       ELSE UNCHANGED <<monitors, check_results, incidents>>
    /\ UNCHANGED <<issued, jobs, tick, alerts, now, creating, manual,
                   next_run_time>>

(***************************************************************************)
(* Retention pruner (prune_old_results): one run of job prune_old_results. *)
(* The clock counts hours where retention is concerned.                    *)
(***************************************************************************)
FirePrune ==
    /\ prune_job_id \in DOMAIN jobs
    /\ has_free_instance(tick[prune_job_id])
    /\ tick' = [tick EXCEPT ![prune_job_id] = [pc |-> "users"]]
    /\ UNCHANGED <<monitors, issued, check_results, incidents, jobs, pending, alerts, now, creating, manual,
                   next_run_time>>

\* lines 309-310: all users are read; none of them is handled yet
prune_select_users ==
    /\ tick[prune_job_id].pc = "users"
    /\ tick' = [tick EXCEPT ![prune_job_id] =
                   [pc |-> "user", todo |-> Users, statements |-> <<>>]]
    /\ UNCHANGED <<monitors, issued, check_results, incidents, jobs, pending, alerts, now, creating, manual,
                   next_run_time>>

\* variant: a plan that is not in the table is treated as the pro plan
retention_cutoff_default_pro(at, plan) ==
    at - (IF plan \in DOMAIN PLAN_LIMITS THEN PLAN_LIMITS[plan]
          ELSE PLAN_LIMITS["pro"]).retention_hours

\* variant: the retention is taken in minutes
retention_cutoff_in_minutes(at, plan) ==
    at - (get_plan_limits(plan).retention_hours \div 60)

\* lines 313-315
retention_cutoff(at, plan) == at - get_plan_limits(plan).retention_hours

\* variant: a row whose checked_at is the cutoff is deleted too
is_expired_at_cutoff(row, statement) ==
    /\ row.monitor_id \in statement.monitor_ids
    /\ row.checked_at <= statement.cutoff

\* variant: the DELETE does not filter on the monitors of the user
is_expired_any_monitor(row, statement) ==
    row.checked_at < statement.cutoff

\* lines 325-328: the WHERE clause of the DELETE
is_expired(row, statement) ==
    /\ row.monitor_id \in statement.monitor_ids
    /\ row.checked_at < statement.cutoff

\* lines 312-329: the next user of the loop (the query returns the users in
\* some order).  The DELETE is executed in the transaction of the run.
prune_user(delays) ==
    /\ tick[prune_job_id].pc = "user"
    /\ \E user \in tick[prune_job_id].todo, at \in clock_readings(delays) :
        LET t == tick[prune_job_id]
            monitor_ids == {m \in DOMAIN monitors : monitors[m].user_id = user}
            statement == [user |-> user, at |-> at,
                          cutoff |-> retention_cutoff(at, UserPlan[user]),
                          monitor_ids |-> monitor_ids]
        IN /\ now' = at
           /\ tick' = [tick EXCEPT ![prune_job_id] =
                          [pc |-> "user", todo |-> t.todo \ {user},
                           statements |-> IF monitor_ids # {}
                                          THEN Append(t.statements, statement)
                                          ELSE t.statements]]
    /\ UNCHANGED <<monitors, issued, check_results, incidents, jobs, pending, alerts, creating, manual,
                   next_run_time>>

\* the rows left by the DELETE statements of a run
prune_table(table, statements) ==
    SelectSeq(table, LAMBDA row :
        \A i \in 1..Len(statements) : ~is_expired(row, statements[i]))

\* line 331: the deletes of the run are committed
prune_commit ==
    /\ tick[prune_job_id].pc = "user"
    /\ tick[prune_job_id].todo = {}
    /\ check_results' = prune_table(check_results, tick[prune_job_id].statements)
    /\ tick' = [tick EXCEPT ![prune_job_id] = Idle]
    /\ UNCHANGED <<monitors, issued, incidents, jobs, pending, alerts, now, creating, manual,
                   next_run_time>>

\* "run one check for monitor X now": a manual trigger calls perform_check
\* for the monitor, whatever the scheduler is running.  The caller is part of
\* the API layer; the invocation it starts is perform_check, below.
run_check_now(m, maxchecks) ==
    /\ manual[m] = Idle
    /\ Len(check_results) < maxchecks
    /\ manual' = [manual EXCEPT ![m] = [pc |-> "start"]]
    /\ UNCHANGED <<monitors, issued, check_results, incidents, jobs, tick, pending, alerts,
                   now, creating,
                   next_run_time>>

\* perform_check, lines 28-31, in the invocation of the manual trigger
perform_check_now_load(m) ==
    /\ manual[m].pc = "start"
    /\ manual' = [manual EXCEPT ![m] =
                     IF is_checkable(monitors, m)
                     THEN [pc |-> "probing", monitor |-> monitors[m]]
                     ELSE Idle]
    /\ UNCHANGED <<monitors, issued, check_results, incidents, jobs, tick, pending, alerts,
                   now, creating,
                   next_run_time>>

\* perform_check, lines 33-68, in the invocation of the manual trigger
perform_check_now_request(m, results) ==
    /\ manual[m].pc = "probing"
    /\ \E r \in results :
         LET out == probe(manual[m].monitor, r)
         IN manual' = [manual EXCEPT ![m] =
                          IF out.raised THEN Idle
                          ELSE [pc |-> "recording", monitor |-> manual[m].monitor,
                                http |-> r, out |-> out]]
    /\ UNCHANGED <<monitors, issued, check_results, incidents, jobs, tick, pending, alerts,
                   now, creating,
                   next_run_time>>

\* perform_check, lines 70-101, in the invocation of the manual trigger: the
\* session of this invocation holds the monitor as this invocation loaded it
perform_check_now_record(m, delays) ==
    /\ manual[m].pc = "recording"
    /\ \E at \in clock_readings(delays) :
         LET loaded  == manual[m].monitor
             out     == manual[m].out
             changed == apply_outcome(loaded, out.status, at)
             kind    == transition_kind(loaded.current_status, changed.current_status)
         IN IF m \notin DOMAIN monitors
            THEN /\ manual' = [manual EXCEPT ![m] = Idle]
                 /\ UNCHANGED <<monitors, check_results, now>>
            ELSE /\ check_results' = Append(check_results, new_check_result(m, out, at))
                 /\ monitors' = [monitors EXCEPT ![m] = flush_monitor(@, loaded, changed)]
                 /\ now' = at
                 /\ manual' = [manual EXCEPT ![m] =
                                  IF kind = "none" THEN Idle
                                  ELSE [pc |-> "transition", monitor |-> changed,
                                        previous_status |-> loaded.current_status,
                                        error_message |-> out.error_message]]
    /\ UNCHANGED <<issued, incidents, jobs, tick, pending, alerts, creating,
                   next_run_time>>

\* _handle_status_transition, lines 116-156, in the invocation of the manual
\* trigger
handle_status_transition_now(m, delays) ==
    /\ manual[m].pc = "transition"
    /\ \E at \in clock_readings(delays) :
        LET t    == manual[m]
            kind == transition_kind(t.previous_status, t.monitor.current_status)
            ongoing_incidents == OngoingOf(incidents, m)
        IN /\ now' = at
           /\ CASE kind = "open" ->
                 \E fk_enforced \in BOOLEAN :
                    IF m \notin DOMAIN monitors /\ fk_enforced
                    THEN /\ UNCHANGED incidents
                         /\ manual' = [manual EXCEPT ![m] = Idle]
                    ELSE /\ incidents' = Append(incidents,
                                new_incident(m, t.monitor, t.error_message, at))
                         /\ manual' = [manual EXCEPT ![m] =
                                [pc |-> "alert", monitor |-> t.monitor,
                                 alert |-> [kind |-> "down",
                                            error_message |-> t.error_message]]]
                [] kind = "resolve" ->
                    /\ incidents' = resolve_incidents(incidents, m, at)
                    /\ manual' = [manual EXCEPT ![m] =
                            IF Len(ongoing_incidents) > 0
                            THEN [pc |-> "alert", monitor |-> t.monitor,
                                  alert |-> [kind |-> "recovery",
                                             duration |->
                                                at - downtime_start(ongoing_incidents)]]
                            ELSE Idle]
                [] OTHER ->
                    /\ UNCHANGED incidents
                    /\ manual' = [manual EXCEPT ![m] = Idle]
    /\ UNCHANGED <<monitors, issued, check_results, jobs, tick, pending, alerts, creating,
                   next_run_time>>

\* _send_down_alert and _send_recovery_alert in the invocation of the manual
\* trigger
send_alert_now(m, smtp, deliveries) ==
    /\ manual[m].pc = "alert"
    /\ \E smtp_configured \in smtp, outcome \in deliveries :
        LET t      == manual[m]
            logged == IF t.alert.kind = "down"
                      THEN send_down_alert(alerts, m, t.monitor, t.alert.error_message)
                      ELSE send_recovery_alert(alerts, m, t.monitor, t.alert.duration)
        IN alerts' = IF has_email_alerts(t.monitor)
                     THEN deliver(logged, t.monitor.user_id, smtp_configured, outcome).log
                     ELSE alerts
    /\ manual' = [manual EXCEPT ![m] = Idle]
    /\ UNCHANGED <<monitors, issued, check_results, incidents, jobs, tick, pending, now,
                   creating,
                   next_run_time>>

\* Due times.  add_job is given a new IntervalTrigger(seconds=interval) and
\* no next run time (lines 48-55): the job it stores, also when it replaces
\* the job of the same id, runs next one interval after the call.
first_run_time(interval) == interval

\* time passes by TimeUnit seconds; a job that is due stays due until the
\* scheduler has processed it
time_passes ==
    /\ \E m \in DOMAIN jobs \cap MonitorIds : next_run_time[m] > 0
    /\ next_run_time' = [m \in MonitorIds |->
                            IF next_run_time[m] > TimeUnit
                            THEN next_run_time[m] - TimeUnit ELSE 0]
    /\ UNCHANGED <<monitors, issued, check_results, incidents, jobs, tick, pending, alerts,
                   now, creating, manual>>

\* the scheduler processes job check_<m> at its run time: an instance is
\* started unless max_instances are running (the run is then skipped), and
\* the next run time is one interval later
process_due_job(m, maxchecks) ==
    /\ m \in DOMAIN jobs
    /\ next_run_time[m] = 0
    /\ Len(check_results) < maxchecks
    /\ tick' = [tick EXCEPT ![m] =
                   IF has_free_instance(tick[m]) THEN [pc |-> "start"] ELSE @]
    /\ next_run_time' = [next_run_time EXCEPT ![m] = jobs[m].interval]
    /\ UNCHANGED <<monitors, issued, check_results, incidents, jobs, pending, alerts, now,
                   creating, manual>>

\* update_monitor, lines 243-253, with the run time of the job that
\* schedule_monitor stores
update_monitor_schedule_at(m) ==
    /\ "update" \in pending[m]
    /\ pending' = [pending EXCEPT ![m] = @ \ {"update"}]
    /\ jobs' = IF m \notin DOMAIN monitors THEN jobs
               ELSE IF monitors[m].is_active
                    THEN schedule_monitor(jobs, m, monitors[m].check_interval)
                    ELSE unschedule_monitor(jobs, m).table
    /\ next_run_time' =
            IF m \in DOMAIN monitors /\ monitors[m].is_active
            THEN [next_run_time EXCEPT
                     ![m] = first_run_time(monitors[m].check_interval)]
            ELSE next_run_time
    /\ UNCHANGED <<monitors, issued, check_results, incidents, tick, alerts, now, creating,
                   manual>>

(***************************************************************************)
(* Specifications                                                          *)
(***************************************************************************)
\* in: the inputs of a specification, [ids, users, results, expected_codes,
\* delays, maxchecks, smtp, deliveries]
TickStep(in, m) ==
    \/ Fire(m, in.maxchecks)
    \/ perform_check_load(m)
    \/ perform_check_request(m, in.results)
    \/ perform_check_record(m, in.delays)
    \/ handle_status_transition(m, in.delays)
    \/ send_alert(m, in.smtp, in.deliveries)

ChangeStep(m) ==
    \/ update_monitor(m)
    \/ update_monitor_schedule(m)
    \/ delete_monitor(m)
    \/ delete_monitor_commit(m)

\* The pipeline under management: one monitor that expects 200, probes that
\* answer 200 or 500, one unit of time between two readings of the clock, no
\* SMTP credentials (the defaults of app/config.py).  The pruner does not run
\* here: no result gets as old as a retention horizon.
PipelineInputs ==
    [ids |-> {"m1"}, users |-> {"u1"}, results |-> Responses(StatusCodes, {120}),
     expected_codes |-> {200}, delays |-> {1}, maxchecks |-> MaxChecks,
     smtp |-> {FALSE}, deliveries |-> {"sent"}]

Next ==
    \/ create_monitor(PipelineInputs.ids, PipelineInputs.users, Intervals,
                      PipelineInputs.expected_codes)
    \/ \E m \in MonitorIds :
        \/ TickStep(PipelineInputs, m)
        \/ create_monitor_schedule(m)
        \/ ChangeStep(m)

Spec == Init /\ [][Next]_vars

\* The probe: a monitor that is created and then left alone, every outcome of
\* the request (a response in under a millisecond, exceptions with a text
\* longer than the limit), either expected code.
ProbeInputs ==
    [ids |-> {"m1"}, users |-> {"u1"},
     results |-> Responses(StatusCodes, {0}) \cup Exceptions({250}),
     expected_codes |-> StatusCodes, delays |-> {1}, maxchecks |-> MaxProbeChecks,
     smtp |-> {FALSE}, deliveries |-> {"sent"}]

NextProbe ==
    \/ create_monitor(ProbeInputs.ids, ProbeInputs.users, Intervals,
                      ProbeInputs.expected_codes)
    \/ \E m \in MonitorIds :
        \/ TickStep(ProbeInputs, m)
        \/ create_monitor_schedule(m)

SpecProbe == Init /\ [][NextProbe]_vars

\* The notifier with SMTP credentials configured: a monitor that is created
\* and then left alone, deliveries that succeed or fail.
NotifyInputs ==
    [ids |-> {"m1"}, users |-> {"u1"}, results |-> Responses(StatusCodes, {120}),
     expected_codes |-> {200}, delays |-> {1}, maxchecks |-> MaxNotifyChecks,
     smtp |-> {TRUE}, deliveries |-> {"sent", "failed"}]

NextNotify ==
    \/ create_monitor(NotifyInputs.ids, NotifyInputs.users, Intervals,
                      NotifyInputs.expected_codes)
    \/ \E m \in MonitorIds :
        \/ TickStep(NotifyInputs, m)
        \/ create_monitor_schedule(m)

SpecNotify == Init /\ [][NextNotify]_vars

\* Retention: the monitors of a pro user and of a user with an unknown plan,
\* probes that answer 200, and the pruner.  The instants at which the clock
\* is read are the hour of the first checks, one day later, and one hour
\* after one day and after ninety days.
RetentionInstants == {1, 25, 26, 2162}

RetentionInputs ==
    [ids |-> {"m1", "m2"}, users |-> {"u2", "u3"},
     results |-> Responses({200}, {120}),
     expected_codes |-> {200},
     delays |-> {i - now : i \in {j \in RetentionInstants : j >= now}},
     maxchecks |-> MaxRetentionChecks,
     smtp |-> {FALSE}, deliveries |-> {"sent"}]

NextRetention ==
    \/ create_monitor(RetentionInputs.ids, RetentionInputs.users, {300},
                      RetentionInputs.expected_codes)
    \/ \E m \in MonitorIds :
        \/ Fire(m, RetentionInputs.maxchecks)
        \/ perform_check_load(m)
        \/ perform_check_request(m, RetentionInputs.results)
        \/ perform_check_record(m, RetentionInputs.delays)
        \/ create_monitor_schedule(m)
    \/ FirePrune
    \/ prune_select_users
    \/ prune_user(RetentionInputs.delays)
    \/ prune_commit

SpecRetention == Init /\ [][NextRetention]_vars

\* The life of a check result: one monitor, of the user whose plan is not in
\* the table, under ticks, the pruner, update and delete.
RowsInstants == {1, 25, 26}

RowsInputs ==
    [ids |-> {"m1"}, users |-> {"u3"},
     results |-> Responses({200}, {120}),
     expected_codes |-> {200},
     delays |-> {i - now : i \in {j \in RowsInstants : j >= now}},
     maxchecks |-> MaxRowsChecks,
     smtp |-> {FALSE}, deliveries |-> {"sent"}]

NextRows ==
    \/ create_monitor(RowsInputs.ids, RowsInputs.users, Intervals,
                      RowsInputs.expected_codes)
    \/ \E m \in MonitorIds :
        \/ Fire(m, RowsInputs.maxchecks)
        \/ perform_check_load(m)
        \/ perform_check_request(m, RowsInputs.results)
        \/ perform_check_record(m, RowsInputs.delays)
        \/ create_monitor_schedule(m)
        \/ ChangeStep(m)
    \/ FirePrune
    \/ prune_select_users
    \/ prune_user(RowsInputs.delays)
    \/ prune_commit

SpecRows == Init /\ [][NextRows]_vars

\* The start: the process comes up on a database with monitors of the pro
\* user, start_scheduler runs, and the jobs tick (probes answer 200).
BootInputs ==
    [ids |-> MonitorIds, users |-> {"u2"},
     results |-> Responses({200}, {120}),
     expected_codes |-> {200}, delays |-> {1}, maxchecks |-> MaxBootChecks,
     smtp |-> {FALSE}, deliveries |-> {"sent"}]

NextBoot ==
    \/ start_scheduler
    \/ \E m \in MonitorIds :
        \/ Fire(m, BootInputs.maxchecks)
        \/ perform_check_load(m)
        \/ perform_check_request(m, BootInputs.results)
        \/ perform_check_record(m, BootInputs.delays)

SpecBoot == InitBoot /\ [][NextBoot]_vars

\* The scheduler under management: the application has started on a
\* database with one monitor of the pro user, which is left alone; another
\* monitor of that user is created, updated and deleted; the jobs of both
\* tick (probes answer 200).
SchedulerInputs ==
    [ids |-> {"m1"}, users |-> {"u2"},
     results |-> Responses({200}, {120}),
     expected_codes |-> {200}, delays |-> {1}, maxchecks |-> MaxSchedulerChecks,
     smtp |-> {FALSE}, deliveries |-> {"sent"}]

InitScheduler ==
    /\ monitors = [k \in {"m2"} |-> NewMonitor("u2", "api", 300, 30, 200)]
    /\ issued = DOMAIN monitors
    /\ check_results = <<>>
    /\ incidents = <<>>
    /\ jobs = start_scheduler_jobs([k \in {} |-> None], monitors)
    /\ tick = [j \in JobIds |-> Idle]
    /\ pending = [m \in MonitorIds |-> {}]
    /\ alerts = <<>>
    /\ creating = [k \in {} |-> None]
    /\ manual = [m \in MonitorIds |-> Idle]
    /\ next_run_time = [m \in MonitorIds |-> 0]
    /\ now = 0

NextScheduler ==
    \/ create_monitor(SchedulerInputs.ids, SchedulerInputs.users, Intervals,
                      SchedulerInputs.expected_codes)
    \/ \E m \in MonitorIds :
        \/ Fire(m, SchedulerInputs.maxchecks)
        \/ perform_check_load(m)
        \/ perform_check_request(m, SchedulerInputs.results)
        \/ perform_check_record(m, SchedulerInputs.delays)
    \/ \E m \in SchedulerInputs.ids :
        \/ create_monitor_schedule(m)
        \/ ChangeStep(m)

SpecScheduler == InitScheduler /\ [][NextScheduler]_vars

\* The scheduler under management with the event loop at work: a tick that
\* has started is resumed whenever it can go on (the loop runs every ready
\* coroutine; the request ends within the timeout of the monitor).
FairScheduler ==
    /\ SpecScheduler
    /\ \A m \in MonitorIds :
        /\ WF_vars(perform_check_load(m))
        /\ WF_vars(perform_check_request(m, SchedulerInputs.results))
        /\ WF_vars(perform_check_record(m, SchedulerInputs.delays))

\* Two monitors side by side.  Both monitors of the free user were seen up and
\* then down three times, were paused for longer than the retention of the
\* plan, so that their results were pruned, and were resumed: each is down
\* with its incident ongoing and has its job.  The jobs of both tick (probes
\* answer 200 or 500), and the first monitor can be deleted while its tick
\* runs, so that the commit of that tick raises.
IsolationInputs ==
    [ids |-> {"m1"}, users |-> {"u1"}, results |-> Responses(StatusCodes, {120}),
     expected_codes |-> {200}, delays |-> {1}, maxchecks |-> MaxIsolationChecks,
     smtp |-> {FALSE}, deliveries |-> {"sent"}]

IsolationRow ==
    [NewMonitor("u1", "api", 300, 30, 200) EXCEPT
        !.current_status = "down",
        !.consecutive_failures = consecutive_failures_threshold,
        !.last_checked_at = Some(4)]

InitIsolation ==
    /\ monitors = [k \in MonitorIds |-> IsolationRow]
    /\ issued = DOMAIN monitors
    /\ check_results = <<>>
    /\ incidents =
        LET error_message ==
                probe(IsolationRow, [kind |-> "response", status_code |-> 500,
                                     elapsed_ms |-> 120]).error_message
        IN <<new_incident("m1", IsolationRow, error_message, 4),
             new_incident("m2", IsolationRow, error_message, 4)>>
    /\ jobs = start_scheduler_jobs([k \in {} |-> None], monitors)
    /\ tick = [j \in JobIds |-> Idle]
    /\ pending = [m \in MonitorIds |-> {}]
    /\ alerts = <<>>
    /\ creating = [k \in {} |-> None]
    /\ manual = [m \in MonitorIds |-> Idle]
    /\ next_run_time = [m \in MonitorIds |-> 0]
    /\ now = 30

NextIsolation ==
    \/ \E m \in MonitorIds : TickStep(IsolationInputs, m)
    \/ \E m \in IsolationInputs.ids :
        \/ delete_monitor(m)
        \/ delete_monitor_commit(m)

SpecIsolation == InitIsolation /\ [][NextIsolation]_vars

\* The downtime of a recovery: a monitor of the free user that is down with
\* its incident ongoing (seen up, then down three times, paused until its
\* results were pruned, resumed) is checked and found up.  The clock counts
\* seconds, and the time between two readings of it is one of
\* DurationDelays: around a minute, an hour and a day.
DurationDelays == {0, 59, 60, 3599, 3600, 3660, 86399, 86400, 90000}

DurationInputs ==
    [ids |-> {"m1"}, users |-> {"u1"}, results |-> Responses({200}, {120}),
     expected_codes |-> {200}, delays |-> DurationDelays,
     maxchecks |-> MaxDurationChecks,
     smtp |-> {FALSE}, deliveries |-> {"sent"}]

InitDuration ==
    /\ monitors = [k \in DurationInputs.ids |-> [IsolationRow EXCEPT !.last_checked_at = Some(0)]]
    /\ issued = DOMAIN monitors
    /\ check_results = <<>>
    /\ incidents =
        LET error_message ==
                probe(IsolationRow, [kind |-> "response", status_code |-> 500,
                                     elapsed_ms |-> 120]).error_message
        IN <<new_incident("m1", IsolationRow, error_message, 0)>>
    /\ jobs = start_scheduler_jobs([k \in {} |-> None], monitors)
    /\ tick = [j \in JobIds |-> Idle]
    /\ pending = [m \in MonitorIds |-> {}]
    /\ alerts = <<>>
    /\ creating = [k \in {} |-> None]
    /\ manual = [m \in MonitorIds |-> Idle]
    /\ next_run_time = [m \in MonitorIds |-> 0]
    /\ now = 0

NextDuration == \E m \in MonitorIds : TickStep(DurationInputs, m)

SpecDuration == InitDuration /\ [][NextDuration]_vars

\* The limit of the plan: the free user owns four monitors, one fewer than
\* the plan allows, and sends requests that create three more and requests
\* that delete two of the four; the requests overlap as the awaits of the
\* handlers allow.
LimitOwned == {"m1", "m2", "m3", "m4"}

LimitIds == LimitOwned \cup {"m5", "m6", "m7"}

LimitInputs ==
    [ids |-> LimitIds \ LimitOwned, users |-> {"u1"}, expected_codes |-> {200},
     deleted |-> {"m1", "m2"}]

InitLimit ==
    /\ monitors = [k \in LimitOwned |-> NewMonitor("u1", "api", 300, 30, 200)]
    /\ issued = DOMAIN monitors
    /\ check_results = <<>>
    /\ incidents = <<>>
    /\ jobs = start_scheduler_jobs([k \in {} |-> None], monitors)
    /\ tick = [j \in LimitIds \cup {prune_job_id} |-> Idle]
    /\ pending = [m \in LimitIds |-> {}]
    /\ alerts = <<>>
    /\ creating = [k \in {} |-> None]
    /\ manual = [m \in MonitorIds |-> Idle]
    /\ next_run_time = [m \in MonitorIds |-> 0]
    /\ now = 0

NextLimit ==
    \/ create_monitor_count(LimitInputs.ids, LimitInputs.users, Intervals,
                            LimitInputs.expected_codes)
    \/ \E m \in LimitInputs.ids :
        \/ create_monitor_commit(m)
        \/ create_monitor_schedule(m)
    \/ \E m \in LimitInputs.deleted :
        \/ delete_monitor(m)
        \/ delete_monitor_commit(m)

SpecLimit == InitLimit /\ [][NextLimit]_vars

\* Two users: the application has started on a database with a monitor of
\* the free user and a monitor of the pro user; every user sends update and
\* delete requests for either monitor, and the jobs tick (probes answer 200).
TenantInputs ==
    [ids |-> MonitorIds, users |-> Users, results |-> Responses({200}, {120}),
     expected_codes |-> {200}, delays |-> {1}, maxchecks |-> MaxTenantChecks,
     smtp |-> {FALSE}, deliveries |-> {"sent"}]

InitTenants ==
    /\ monitors = [k \in MonitorIds |->
                      NewMonitor(IF k = "m1" THEN "u1" ELSE "u2", "api", 300, 30, 200)]
    /\ issued = DOMAIN monitors
    /\ check_results = <<>>
    /\ incidents = <<>>
    /\ jobs = start_scheduler_jobs([k \in {} |-> None], monitors)
    /\ tick = [j \in JobIds |-> Idle]
    /\ pending = [m \in MonitorIds |-> {}]
    /\ alerts = <<>>
    /\ creating = [k \in {} |-> None]
    /\ manual = [m \in MonitorIds |-> Idle]
    /\ next_run_time = [m \in MonitorIds |-> 0]
    /\ now = 0

NextTenants ==
    \E m \in TenantInputs.ids :
        \/ Fire(m, TenantInputs.maxchecks)
        \/ perform_check_load(m)
        \/ perform_check_request(m, TenantInputs.results)
        \/ perform_check_record(m, TenantInputs.delays)
        \/ ChangeStep(m)

SpecTenants == InitTenants /\ [][NextTenants]_vars

\* Pausing and resuming: one monitor of the free user is created, checked
\* (probes answer 200 or 500) and updated.
PauseInputs ==
    [ids |-> {"m1"}, users |-> {"u1"}, results |-> Responses(StatusCodes, {120}),
     expected_codes |-> {200}, delays |-> {1}, maxchecks |-> MaxPauseChecks,
     smtp |-> {FALSE}, deliveries |-> {"sent"}]

NextPause ==
    \/ create_monitor(PauseInputs.ids, PauseInputs.users, Intervals,
                      PauseInputs.expected_codes)
    \/ \E m \in PauseInputs.ids :
        \/ TickStep(PauseInputs, m)
        \/ create_monitor_schedule(m)
        \/ update_monitor(m)
        \/ update_monitor_schedule(m)

SpecPause == Init /\ [][NextPause]_vars

\* Persistence failures: one monitor of the free user is created and
\* checked (probes answer 200 or 500); every commit of a tick can raise.
FailureInputs ==
    [ids |-> {"m1"}, users |-> {"u1"}, results |-> Responses(StatusCodes, {120}),
     expected_codes |-> {200}, delays |-> {1}, maxchecks |-> MaxFailureChecks,
     smtp |-> {FALSE}, deliveries |-> {"sent"}]

NextFailure ==
    \/ create_monitor(FailureInputs.ids, FailureInputs.users, Intervals,
                      FailureInputs.expected_codes)
    \/ \E m \in FailureInputs.ids :
        \/ TickStep(FailureInputs, m)
        \/ create_monitor_schedule(m)
        \/ perform_check_record_fails(m)
        \/ handle_status_transition_fails(m)

SpecFailure == Init /\ [][NextFailure]_vars

\* Manual triggers: one monitor of the free user is created and checked by
\* the scheduler and by "run one check now" (probes answer 200 or 500); the
\* two invocations of perform_check interleave at their awaits.
ManualInputs ==
    [ids |-> {"m1"}, users |-> {"u1"}, results |-> Responses(StatusCodes, {120}),
     expected_codes |-> {200}, delays |-> {1}, maxchecks |-> MaxManualChecks,
     smtp |-> {FALSE}, deliveries |-> {"sent"}]

ManualStep(in, m) ==
    \/ run_check_now(m, in.maxchecks)
    \/ perform_check_now_load(m)
    \/ perform_check_now_request(m, in.results)
    \/ perform_check_now_record(m, in.delays)
    \/ handle_status_transition_now(m, in.delays)
    \/ send_alert_now(m, in.smtp, in.deliveries)

NextManual ==
    \/ create_monitor(ManualInputs.ids, ManualInputs.users, Intervals,
                      ManualInputs.expected_codes)
    \/ \E m \in ManualInputs.ids :
        \/ TickStep(ManualInputs, m)
        \/ create_monitor_schedule(m)
        \/ ManualStep(ManualInputs, m)

SpecManual == Init /\ [][NextManual]_vars

\* Due times: one active monitor of the free user, checked every 300
\* seconds and scheduled at the start of the process; time passes in steps of
\* TimeUnit seconds, and update requests that leave the monitor active and its
\* interval as it is arrive at any time.
DueInputs ==
    [ids |-> {"m1"}, users |-> {"u1"}, results |-> Responses(StatusCodes, {120}),
     expected_codes |-> {200}, delays |-> {1}, maxchecks |-> MaxDueChecks,
     smtp |-> {FALSE}, deliveries |-> {"sent"}]

DueRow == NewMonitor("u1", "api", 300, 30, 200)

DueBodies == {[is_active |-> TRUE], [check_interval |-> DueRow.check_interval]}

InitDue ==
    /\ monitors = [k \in DueInputs.ids |-> DueRow]
    /\ issued = DOMAIN monitors
    /\ check_results = <<>>
    /\ incidents = <<>>
    /\ jobs = start_scheduler_jobs([k \in {} |-> None], monitors)
    /\ tick = [j \in JobIds |-> Idle]
    /\ pending = [m \in MonitorIds |-> {}]
    /\ alerts = <<>>
    /\ creating = [k \in {} |-> None]
    /\ manual = [m \in MonitorIds |-> Idle]
    /\ next_run_time = [m \in MonitorIds |->
                           IF m \in DOMAIN monitors
                           THEN first_run_time(monitors[m].check_interval) ELSE 0]
    /\ now = 0

NextDue ==
    \/ time_passes
    \/ \E m \in DueInputs.ids :
        \/ process_due_job(m, DueInputs.maxchecks)
        \/ perform_check_load(m)
        \/ perform_check_request(m, DueInputs.results)
        \/ perform_check_record(m, DueInputs.delays)
        \/ handle_status_transition(m, DueInputs.delays)
        \/ send_alert(m, DueInputs.smtp, DueInputs.deliveries)
        \/ \E user \in DueInputs.users : update_monitor_with(m, user, DueBodies)
        \/ update_monitor_schedule_at(m)

SpecDue == InitDue /\ [][NextDue]_vars

\* Fairness: time passes, the scheduler processes a job that is due, a tick
\* that was started runs to its end, and an update request that has committed
\* goes on to its call of the scheduler.  Nothing is assumed about when, or
\* how often, update requests arrive.
FairDue ==
    /\ SpecDue
    /\ WF_vars(time_passes)
    /\ \A m \in DueInputs.ids :
        /\ WF_vars(process_due_job(m, DueInputs.maxchecks))
        /\ WF_vars(perform_check_load(m))
        /\ WF_vars(perform_check_request(m, DueInputs.results))
        /\ WF_vars(perform_check_record(m, DueInputs.delays))
        /\ WF_vars(handle_status_transition(m, DueInputs.delays))
        /\ WF_vars(send_alert(m, DueInputs.smtp, DueInputs.deliveries))
        /\ WF_vars(update_monitor_schedule_at(m))

(***************************************************************************)
(* Properties                                                              *)
(***************************************************************************)
Threshold == consecutive_failures_threshold

\* the check results of monitor m, oldest first
History(m) == RowsOf(check_results, m)

AllDown(rs, from, to) == \A i \in from..to : rs[i].status = "down"

Contains(seq, x) == \E i \in 1..Len(seq) : seq[i] = x

\* C1: a monitor whose current_status is down has consecutive_failures >= the
\* threshold, and a step that turns a monitor down is one that increments
\* consecutive_failures to a value >= the threshold.
C1_DownOnlyAtThreshold ==
    /\ [](\A m \in DOMAIN monitors :
            monitors[m].current_status = "down"
                => monitors[m].consecutive_failures >= Threshold)
    /\ [][\A m \in DOMAIN monitors \cap DOMAIN monitors' :
            (monitors[m].current_status # "down" /\ monitors'[m].current_status = "down")
                => /\ monitors'[m].consecutive_failures
                          = monitors[m].consecutive_failures + 1
                   /\ monitors'[m].consecutive_failures >= Threshold]_vars

\* a monitor that has just been turned down
C1_Witness ==
    \E m \in DOMAIN monitors :
        /\ monitors[m].current_status = "down"
        /\ monitors[m].consecutive_failures = Threshold

\* C2: after exactly Threshold-1 consecutive down results that follow a state
\* with consecutive_failures = 0 (a new monitor, or an up result), the
\* monitor's current_status is what it was before them (unknown, or up) and
\* consecutive_failures = Threshold-1.
C2_BelowThresholdKeepsStatus ==
    \A m \in DOMAIN monitors :
        LET rs == History(m)
            n  == Len(rs)
            k  == Threshold - 1
        IN (/\ n >= k
            /\ AllDown(rs, n - k + 1, n)
            /\ (n = k \/ rs[n - k].status = "up"))
           => /\ monitors[m].consecutive_failures = k
              /\ monitors[m].current_status = IF n = k THEN "unknown" ELSE "up"

\* an up result followed by Threshold-1 down results
C2_Witness ==
    \E m \in DOMAIN monitors :
        LET rs == History(m)
        IN /\ Len(rs) = Threshold
           /\ rs[1].status = "up"
           /\ AllDown(rs, 2, Threshold)

\* C3: once the tick that recorded the last of Threshold consecutive down
\* results after an up result has handled its transition, the monitor is
\* down with consecutive_failures = Threshold and has exactly one ongoing
\* incident, whose title contains the monitor's name.
C3_IncidentAfterThreshold ==
    \A m \in DOMAIN monitors :
        LET rs == History(m)
            n  == Len(rs)
            ongoing == OngoingOf(incidents, m)
        IN (/\ tick[m].pc # "transition"
            /\ n >= Threshold + 1
            /\ AllDown(rs, n - Threshold + 1, n)
            /\ rs[n - Threshold].status = "up")
           => /\ monitors[m].current_status = "down"
              /\ monitors[m].consecutive_failures = Threshold
              /\ Len(ongoing) = 1
              /\ Contains(ongoing[1].title, monitors[m].name)

\* the tick of the last of the Threshold down results has ended
C3_Witness ==
    \E m \in DOMAIN monitors :
        LET rs == History(m)
            n  == Len(rs)
        IN /\ tick[m] = Idle
           /\ n = Threshold + 1
           /\ rs[1].status = "up"
           /\ AllDown(rs, 2, n)
           /\ Len(OngoingOf(incidents, m)) = 1

\* C4: once the tick that recorded an up result for a down monitor (Threshold
\* or more down results before it) has handled its transition, the monitor
\* is up with consecutive_failures = 0, it has no ongoing incident, and every
\* incident of it is resolved with resolved_at set.
C4_RecoveryResolvesIncidents ==
    \A m \in DOMAIN monitors :
        LET rs == History(m)
            n  == Len(rs)
        IN (/\ tick[m].pc # "transition"
            /\ n >= Threshold + 1
            /\ rs[n].status = "up"
            /\ AllDown(rs, n - Threshold, n - 1))
           => /\ monitors[m].current_status = "up"
              /\ monitors[m].consecutive_failures = 0
              /\ OngoingOf(incidents, m) = <<>>
              /\ \A i \in 1..Len(incidents) :
                    incidents[i].monitor_id = m
                        => /\ incidents[i].status = "resolved"
                           /\ ~IsNone(incidents[i].resolved_at)

\* an incident was open when the up result came, and the tick has ended
C4_Witness ==
    \E m \in DOMAIN monitors :
        LET rs == History(m)
            n  == Len(rs)
        IN /\ tick[m] = Idle
           /\ n >= Threshold + 2
           /\ rs[n].status = "up"
           /\ AllDown(rs, n - Threshold, n - 1)
           /\ rs[n - Threshold - 1].status = "up"
           /\ \E i \in 1..Len(incidents) :
                /\ incidents[i].monitor_id = m
                /\ incidents[i].status = "resolved"

C6_UpResets ==
    \A m \in DOMAIN monitors :
        LET rs == History(m)
            n  == Len(rs)
        IN (n >= 1 /\ rs[n].status = "up")
           => /\ monitors[m].consecutive_failures = 0
              /\ monitors[m].current_status = "up"
              /\ ~IsNone(monitors[m].last_checked_at)
              /\ Get(monitors[m].last_checked_at) >= rs[n].checked_at

\* an up result right after failures below the threshold
C6_Witness ==
    \E m \in DOMAIN monitors :
        LET rs == History(m)
            n  == Len(rs)
        IN /\ n >= 3
           /\ rs[n].status = "up"
           /\ AllDown(rs, 1, n - 1)

\* C7: the step in which perform_check reads a monitor that is absent or
\* inactive ends the tick: it starts no probe and leaves the monitors, the
\* check results, the incidents and the alert log as they are.
C7_InactiveOrAbsentIsNoOp ==
    [][\A m \in MonitorIds :
        (/\ tick[m].pc = "start"
         /\ tick'[m] # tick[m]
         /\ (m \notin DOMAIN monitors \/ ~monitors[m].is_active))
        => /\ tick'[m] = Idle
           /\ UNCHANGED <<monitors, check_results, incidents, alerts>>]_vars

\* a tick that is about to read a paused monitor that has results
C7_Witness ==
    \E m \in DOMAIN monitors :
        /\ tick[m].pc = "start"
        /\ ~monitors[m].is_active
        /\ Len(History(m)) >= 1

\* C8: the request step of a tick never ends the tick: it always goes on to
\* the recording with a result that is up or down, down whenever no response
\* came, and a down result carries an error message that is not empty.
C8_ProbeNeverRaises ==
    [][\A m \in MonitorIds :
        (tick[m].pc = "probing" /\ tick'[m] # tick[m])
        => /\ tick'[m].pc = "recording"
           /\ tick'[m].out.status \in {"up", "down"}
           /\ (tick'[m].http.kind # "response" => tick'[m].out.status = "down")
           /\ (tick'[m].out.status = "down"
                 => /\ ~IsNone(tick'[m].out.error_message)
                    /\ Len(Get(tick'[m].out.error_message)) >= 1
                    /\ Get(tick'[m].out.error_message)[1] # "")]_vars

\* an exception that is none of httpx's was turned into a down result
C8_Witness ==
    \E m \in MonitorIds :
        /\ tick[m].pc = "recording"
        /\ tick[m].http.kind = "Exception"
        /\ tick[m].out.status = "down"

\* C9: the row a tick records is up exactly when a response came with the
\* status code the monitor expects; its error_message is null exactly when it
\* is up; its status_code and response_time_ms are set exactly when a
\* response came, and status_code is the code of the response.
C9_RecordedOutcome ==
    [][\A m \in MonitorIds :
        (/\ tick[m].pc = "recording"
         /\ Len(check_results') = Len(check_results) + 1
         /\ check_results'[Len(check_results')].monitor_id = m)
        => LET row   == check_results'[Len(check_results')]
               h     == tick[m].http
               came  == h.kind = "response"
           IN /\ row.status \in {"up", "down"}
              /\ (row.status = "up")
                    <=> (came /\ h.status_code = tick[m].monitor.expected_status_code)
              /\ IsNone(row.error_message) <=> (row.status = "up")
              /\ ~IsNone(row.status_code) <=> came
              /\ ~IsNone(row.response_time_ms) <=> came
              /\ came => Get(row.status_code) = h.status_code]_vars

\* a monitor that expects 500 has an up row and a down row of a response,
\* and a row without a response
C9_Witness ==
    \E m \in DOMAIN monitors :
        /\ monitors[m].expected_status_code = 500
        /\ \E i, j, k \in 1..Len(check_results) :
            /\ check_results[i].status = "up"
            /\ check_results[i].status_code = Some(500)
            /\ check_results[j].status = "down"
            /\ check_results[j].status_code = Some(200)
            /\ IsNone(check_results[k].status_code)

\* the number of down results at the end of rs
RECURSIVE TrailingDowns(_)
TrailingDowns(rs) ==
    IF rs = <<>> \/ rs[Len(rs)].status # "down" THEN 0
    ELSE 1 + TrailingDowns(SubSeq(rs, 1, Len(rs) - 1))

\* C10: the result row, last_checked_at and the failure count and status are
\* committed together.  In every state a monitor has results exactly when its
\* last_checked_at is set, and its consecutive_failures is the number of down
\* results at the end of its history.  In every step the results of a monitor
\* stay as they are together with the three fields, or go with the monitor, or
\* grow by the one row of the tick that ends its recording, together with the
\* fields that follow from that row; and a recording that ends on an existing
\* monitor adds its row.
C10_RecordIsOneTransaction ==
    /\ [](\A m \in DOMAIN monitors :
            LET rs == History(m)
            IN /\ (rs = <<>>) <=> IsNone(monitors[m].last_checked_at)
               /\ rs # <<>> => Get(monitors[m].last_checked_at) >= rs[Len(rs)].checked_at
               /\ monitors[m].consecutive_failures = TrailingDowns(rs)
               /\ rs = <<>> => monitors[m].current_status = "unknown")
    /\ [][\A m \in MonitorIds :
            LET before == RowsOf(check_results, m)
                after  == RowsOf(check_results', m)
                recorded == /\ tick[m].pc = "recording"
                            /\ tick'[m] # tick[m]
                            /\ m \in DOMAIN monitors
            IN /\ recorded => Len(after) = Len(before) + 1
               /\ \/ /\ after = before
                     /\ m \in DOMAIN monitors \cap DOMAIN monitors'
                          => /\ monitors'[m].last_checked_at = monitors[m].last_checked_at
                             /\ monitors'[m].consecutive_failures
                                   = monitors[m].consecutive_failures
                             /\ monitors'[m].current_status = monitors[m].current_status
                  \/ /\ after = <<>>
                     /\ m \in DOMAIN monitors
                     /\ m \notin DOMAIN monitors'
                  \/ /\ recorded
                     /\ Len(after) = Len(before) + 1
                     /\ SubSeq(after, 1, Len(before)) = before
                     /\ m \in DOMAIN monitors'
                     /\ ~IsNone(monitors'[m].last_checked_at)
                     /\ Get(monitors'[m].last_checked_at) >= after[Len(after)].checked_at
                     /\ monitors'[m].consecutive_failures =
                           IF after[Len(after)].status = "up" THEN 0
                           ELSE monitors[m].consecutive_failures + 1
                     /\ monitors'[m].current_status =
                           IF after[Len(after)].status = "up" THEN "up"
                           ELSE IF monitors'[m].consecutive_failures >= Threshold
                                THEN "down" ELSE monitors[m].current_status]_vars

\* a monitor with several results, the last one committed with the count
C10_Witness ==
    \E m \in DOMAIN monitors :
        LET rs == History(m)
        IN /\ Len(rs) >= 2
           /\ monitors[m].consecutive_failures = 2
           /\ monitors[m].last_checked_at = Some(rs[Len(rs)].checked_at)

\* C11 as stated: after a recorded check of a monitor, its current_status is
\* up or down and never unknown.
C11_NeverUnknownAfterCheck ==
    \A m \in DOMAIN monitors :
        History(m) # <<>> => monitors[m].current_status \in {"up", "down"}

\* C11: a monitor's current_status is unknown exactly while every recorded
\* check of it failed and there are fewer than the threshold of them; a
\* status that has left unknown never returns to it; and a tick that is about
\* to record observes previous_status = unknown only while all earlier
\* recorded checks of the monitor are failures below the threshold.
C11_UnknownOnlyBelowThreshold ==
    /\ [](\A m \in DOMAIN monitors :
            LET rs == History(m)
            IN /\ monitors[m].current_status = "unknown"
                    <=> (AllDown(rs, 1, Len(rs)) /\ Len(rs) < Threshold)
               /\ (tick[m].pc = "recording"
                     /\ tick[m].monitor.current_status = "unknown")
                    => (AllDown(rs, 1, Len(rs)) /\ Len(rs) < Threshold))
    /\ [][\A m \in DOMAIN monitors \cap DOMAIN monitors' :
            monitors[m].current_status # "unknown"
                => monitors'[m].current_status # "unknown"]_vars

\* a tick observes previous_status = unknown after two recorded checks
C11_Witness ==
    \E m \in DOMAIN monitors :
        /\ tick[m].pc = "recording"
        /\ tick[m].monitor.current_status = "unknown"
        /\ Len(History(m)) = Threshold - 1

\* C12: a tick whose previous_status is unknown ends with its recording: it
\* goes on to no transition and no alert, and leaves the incidents and the
\* notifier's log as they are; every step that changes the incidents of a
\* monitor or adds to the log is taken by a tick of it whose previous_status
\* was up or down, or by the delete of the monitor.
C12_UnknownPreviousDoesNothing ==
    /\ [](\A m \in MonitorIds :
            /\ tick[m].pc = "transition" => tick[m].previous_status \in {"up", "down"}
            /\ tick[m].pc = "alert" => tick[m].monitor.current_status \in {"up", "down"})
    /\ [][\A m \in MonitorIds :
            /\ (/\ tick[m].pc = "recording"
                 /\ tick'[m] # tick[m]
                 /\ tick[m].monitor.current_status = "unknown")
               => /\ tick'[m] = Idle
                  /\ UNCHANGED <<incidents, alerts>>
            /\ RowsOf(incidents', m) # RowsOf(incidents, m)
               => \/ tick[m].pc = "transition"
                  \/ "delete" \in pending[m]
            /\ alerts' # alerts => \E k \in MonitorIds : tick[k].pc = "alert"]_vars

\* a monitor that went from unknown to down: no incident, nothing logged
C12_Witness ==
    \E m \in DOMAIN monitors :
        LET rs == History(m)
        IN /\ monitors[m].current_status = "down"
           /\ Len(rs) = Threshold
           /\ AllDown(rs, 1, Threshold)
           /\ tick[m] = Idle
           /\ incidents = <<>>
           /\ alerts = <<>>

\* C13: the step in which the notifier delivers an alert ends the tick
\* without an exception: whatever the SMTP attempt does, nothing is raised,
\* the alert line in the log is followed by the line of the attempt's outcome
\* (sent, or failed), and the monitors, the check results and the incidents
\* stay as they were committed.
C13_DeliveryFailureIsCaught ==
    [][\A m \in MonitorIds :
        (tick[m].pc = "alert" /\ tick'[m] # tick[m])
        => /\ tick'[m] = Idle
           /\ UNCHANGED <<monitors, check_results, incidents>>
           /\ Len(alerts') = Len(alerts) + 2
           /\ alerts'[Len(alerts) + 1].kind = tick[m].alert.kind
           /\ alerts'[Len(alerts) + 2].kind \in {"sent", "failed"}
           /\ \A outcome \in NotifyInputs.deliveries :
                 ~deliver(alerts, tick[m].monitor.user_id, TRUE, outcome).raised]_vars

\* the delivery of a down alert failed and so did that of the recovery
\* alert; the incident of the down alert is there, resolved
C13_Witness ==
    /\ \E i, j \in 1..Len(alerts) :
          /\ i + 1 < j
          /\ j + 1 <= Len(alerts)
          /\ alerts[i].kind = "down"
          /\ alerts[i + 1].kind = "failed"
          /\ alerts[j].kind = "recovery"
          /\ alerts[j + 1].kind = "failed"
    /\ \E i \in 1..Len(incidents) : incidents[i].status = "resolved"
    /\ \A m \in MonitorIds : tick[m] = Idle

\* the retention horizon of a user, in hours
Horizon(user) ==
    CASE UserPlan[user] = "pro"      -> 90 * 24
      [] UserPlan[user] = "business" -> 365 * 24
      [] OTHER                       -> 24

\* the monitors a user owns
OwnedBy(user) == {m \in DOMAIN monitors : monitors[m].user_id = user}

\* row is older than the horizon of the owner at the time the run handled
\* the owner
Older(row, statements) ==
    \E i \in 1..Len(statements) :
        /\ row.monitor_id \in statements[i].monitor_ids
        /\ row.checked_at < statements[i].at - Horizon(statements[i].user)

\* C14: a run of prune_old_results handles every user: the step that handles
\* a user who owns monitors reads the clock and covers exactly the monitors of
\* that user; and the commit of the run deletes exactly the rows of the
\* covered monitors whose checked_at is strictly earlier than that reading
\* minus the horizon of the user's plan (24 hours for a plan that is not in
\* the table), and keeps every other row.
C14_PruneDeletesExactlyExpired ==
    [][LET t == tick[prune_job_id]
           u == tick'[prune_job_id]
       IN /\ (t.pc = "user" /\ u.pc = "user" /\ u # t)
             => \E user \in t.todo :
                  /\ u.todo = t.todo \ {user}
                  /\ IF OwnedBy(user) = {} THEN u.statements = t.statements
                     ELSE /\ Len(u.statements) = Len(t.statements) + 1
                          /\ SubSeq(u.statements, 1, Len(t.statements)) = t.statements
                          /\ u.statements[Len(u.statements)].user = user
                          /\ u.statements[Len(u.statements)].at = now'
                          /\ u.statements[Len(u.statements)].monitor_ids = OwnedBy(user)
          /\ (t.pc = "user" /\ u = Idle)
             => /\ t.todo = {}
                /\ check_results' =
                      SelectSeq(check_results, LAMBDA row : ~Older(row, t.statements))]_vars

\* a run is about to commit: it deletes a row of the user whose plan is not
\* in the table, and keeps a row of the pro user that is older than a day
C14_Witness ==
    LET t == tick[prune_job_id]
    IN /\ t.pc = "user"
       /\ t.todo = {}
       /\ \E i, j \in 1..Len(check_results), k, l \in 1..Len(t.statements) :
            /\ t.statements[k].user = "u3"
            /\ check_results[i].monitor_id \in t.statements[k].monitor_ids
            /\ check_results[i].checked_at < t.statements[k].at - 24
            /\ t.statements[l].user = "u2"
            /\ check_results[j].monitor_id \in t.statements[l].monitor_ids
            /\ check_results[j].checked_at < t.statements[l].at - 24
            /\ check_results[j].checked_at >= t.statements[l].at - 2160

\* C15: the commit of a run of prune_old_results that finds no row older than
\* the cutoff of its owner leaves the check results unchanged; and after the
\* commit of any run no row is older than the cutoffs of that run, so that the
\* same deletes made again at the same time delete nothing.
C15_PruneIsIdempotent ==
    [][LET t == tick[prune_job_id]
       IN (t.pc = "user" /\ tick'[prune_job_id] = Idle)
          => /\ (\A i \in 1..Len(check_results) : ~Older(check_results[i], t.statements))
                  => check_results' = check_results
             /\ \A i \in 1..Len(check_results') : ~Older(check_results'[i], t.statements)
             /\ prune_table(check_results', t.statements) = check_results']_vars

\* a run is about to commit that has nothing to delete: the oldest row of a
\* monitor it covers has the cutoff as its checked_at
C15_Witness ==
    LET t == tick[prune_job_id]
    IN /\ t.pc = "user"
       /\ t.todo = {}
       /\ check_results # <<>>
       /\ \A i \in 1..Len(check_results) : ~Older(check_results[i], t.statements)
       /\ \E i \in 1..Len(check_results), k \in 1..Len(t.statements) :
            /\ check_results[i].monitor_id \in t.statements[k].monitor_ids
            /\ check_results[i].checked_at = t.statements[k].at - Horizon(t.statements[k].user)

\* the step removes the row as one that the pruner commits the delete of and
\* that is older than the horizon of the owner of its monitor
RemovedByPruner(row) ==
    /\ tick[prune_job_id].pc = "user"
    /\ tick'[prune_job_id] = Idle
    /\ row.monitor_id \in DOMAIN monitors
    /\ row.checked_at < now - Horizon(monitors[row.monitor_id].user_id)

\* the step removes the row together with its monitor
RemovedWithMonitor(row) ==
    /\ row.monitor_id \in DOMAIN monitors
    /\ row.monitor_id \notin DOMAIN monitors'

\* the step leaves the check results as they are, or adds one row after
\* them, or removes rows and leaves the others as they are
RowsKeptAddedOrRemoved ==
    \/ check_results' = check_results
    \/ /\ Len(check_results') = Len(check_results) + 1
       /\ SubSeq(check_results', 1, Len(check_results)) = check_results
    \/ /\ Len(check_results') < Len(check_results)
       /\ check_results' =
             SelectSeq(check_results, LAMBDA row : Contains(check_results', row))

\* C16 as stated: no step modifies a row, and a row is removed only by the
\* pruner and only when it is older than the retention horizon of its owner.
C16_RemovedOnlyByPruner ==
    [][/\ RowsKeptAddedOrRemoved
       /\ \A i \in 1..Len(check_results) :
            ~Contains(check_results', check_results[i])
                => RemovedByPruner(check_results[i])]_vars

\* C16: no step modifies a row, and a row is removed only by the pruner when
\* it is older than the retention horizon of its owner, or together with its
\* monitor when delete_monitor deletes the monitor.
C16_RemovedByPrunerOrWithMonitor ==
    [][/\ RowsKeptAddedOrRemoved
       /\ \A i \in 1..Len(check_results) :
            ~Contains(check_results', check_results[i])
                => \/ RemovedByPruner(check_results[i])
                   \/ RemovedWithMonitor(check_results[i])]_vars

\* a monitor that was paused has a row older than a day and a younger one;
\* the pruner is about to commit the delete of the older one while the
\* delete of the monitor is about to be committed
C16_Witness ==
    \E m \in DOMAIN monitors :
        LET t  == tick[prune_job_id]
            rs == History(m)
        IN /\ t.pc = "user"
           /\ t.todo = {}
           /\ Len(rs) = 2
           /\ Older(rs[1], t.statements)
           /\ ~Older(rs[2], t.statements)
           /\ "delete" \in pending[m]
           /\ ~monitors[m].is_active

\* C17: once start_scheduler has run, and while no monitor is created,
\* updated or deleted, the check jobs are those of the monitors with
\* is_active = true, each with the check_interval of its monitor, and the job
\* of the pruner is there with an interval of one hour.
C17_StartSchedulesActive ==
    scheduler_running
        => /\ DOMAIN jobs \ {prune_job_id}
                 = {m \in DOMAIN monitors : monitors[m].is_active}
           /\ \A m \in DOMAIN jobs \ {prune_job_id} :
                 jobs[m].interval = monitors[m].check_interval
           /\ jobs[prune_job_id].interval = 60 * 60

\* start_scheduler has just run on a database with an active monitor that is
\* checked every minute and a paused one
C17_Witness ==
    /\ scheduler_running
    /\ \A j \in JobIds : tick[j] = Idle
    /\ check_results = <<>>
    /\ \E m, k \in DOMAIN monitors :
        /\ monitors[m].is_active
        /\ monitors[m].check_interval = 60
        /\ m \in DOMAIN jobs
        /\ ~monitors[k].is_active
        /\ k \notin DOMAIN jobs

\* the step is the call of schedule_monitor for m by create_monitor or by
\* update_monitor
ScheduleCall(m) ==
    /\ m \in DOMAIN monitors
    /\ \/ "create" \in pending[m] /\ "create" \notin pending'[m]
       \/ /\ "update" \in pending[m] /\ "update" \notin pending'[m]
          /\ monitors[m].is_active

\* the step leaves the jobs other than that of m as they are
OtherJobsUnchanged(m) ==
    \A k \in JobIds \ {m} :
        /\ k \in DOMAIN jobs <=> k \in DOMAIN jobs'
        /\ k \in DOMAIN jobs => jobs'[k] = jobs[k]

\* C18: a call of schedule_monitor for m leaves one job for m, with the
\* interval of the call, whether m had a job or not, and leaves the other jobs
\* as they are; the job of m changes in no other step, so that its interval
\* is that of the most recent call.
C18_ScheduleCreatesOrReplaces ==
    [][\A m \in MonitorIds :
        /\ ScheduleCall(m)
           => /\ m \in DOMAIN jobs'
              /\ jobs'[m].interval = monitors[m].check_interval
              /\ OtherJobsUnchanged(m)
        /\ (m \in DOMAIN jobs /\ m \in DOMAIN jobs' /\ jobs'[m] # jobs[m])
           => ScheduleCall(m)]_vars

\* update_monitor is about to call schedule_monitor for a monitor that has a
\* job with another interval
C18_Witness ==
    \E m \in DOMAIN monitors :
        /\ "update" \in pending[m]
        /\ monitors[m].is_active
        /\ m \in DOMAIN jobs
        /\ jobs[m].interval # monitors[m].check_interval

\* C19: while an instance of the check job of a monitor is running, no
\* instance of that job starts: a tick that comes due is skipped, and when the
\* running instance ends the job has no instance until it comes due again.
C19_NoOverlappingTicks ==
    [][\A m \in MonitorIds :
        (tick[m] # Idle /\ tick'[m] # tick[m]) => tick'[m].pc # "start"]_vars

\* an instance is running while the job of the monitor, replaced with
\* another interval since the instance started, can come due
C19_Witness ==
    \E m \in DOMAIN monitors :
        /\ tick[m].pc = "recording"
        /\ pending[m] = {}
        /\ m \in DOMAIN jobs
        /\ jobs[m].interval # tick[m].monitor.check_interval

\* the step is the call of unschedule_monitor for m by delete_monitor or by
\* update_monitor
UnscheduleCall(m) ==
    /\ m \in DOMAIN monitors
    /\ \/ "delete" \notin pending[m] /\ "delete" \in pending'[m]
       \/ /\ "update" \in pending[m] /\ "update" \notin pending'[m]
          /\ ~monitors[m].is_active

\* C20: a call of unschedule_monitor for m raises nothing and leaves no job
\* for m, whether m had a job or not, and leaves the jobs of the other
\* monitors and the job of the pruner as they are.
C20_UnscheduleRemovesOrNoOp ==
    [][\A m \in MonitorIds :
        UnscheduleCall(m)
        => /\ ~unschedule_monitor(jobs, m).raised
           /\ m \notin DOMAIN jobs'
           /\ OtherJobsUnchanged(m)]_vars

\* a paused monitor, which has no job, is being deleted, beside the job of
\* another monitor and the job of the pruner
C20_Witness ==
    \E m \in DOMAIN monitors :
        /\ pending[m] = {"delete"}
        /\ ~monitors[m].is_active
        /\ m \notin DOMAIN jobs
        /\ DOMAIN jobs \ {m, prune_job_id} # {}
        /\ prune_job_id \in DOMAIN jobs

\* every management request that was accepted has returned
NoRequestInFlight == \A m \in MonitorIds : pending[m] = {}

\* the check job of m is there exactly when m is a stored, active monitor,
\* and then with the interval of the row
JobMatchesRow(m) ==
    /\ m \in DOMAIN jobs <=> (m \in DOMAIN monitors /\ monitors[m].is_active)
    /\ m \in DOMAIN jobs => jobs[m].interval = monitors[m].check_interval

\* C21: with a running scheduler, once the create, update and delete requests
\* that were made have completed, a check job for m exists if and only if a
\* monitor row m exists with is_active = true, and its interval is the row's
\* check_interval.
C21_JobsMatchRows ==
    (scheduler_running /\ NoRequestInFlight)
        => \A m \in MonitorIds : JobMatchesRow(m)

\* the step starts a tick of m
TickStarts(m) == tick[m] = Idle /\ tick'[m] # Idle

\* C22: a call of unschedule_monitor for m leaves no job for m, a job for m
\* comes back only by a call of schedule_monitor for m, and a tick of m starts
\* only while m has a job: after unschedule_monitor no tick of m starts until
\* schedule_monitor is called again.  The call leaves a tick of m that is in
\* flight where it is, and that tick goes on to its end.
C22_UnscheduleStopsNewTicksOnly ==
    /\ [][\A m \in MonitorIds :
            /\ UnscheduleCall(m) => (m \notin DOMAIN jobs' /\ tick'[m] = tick[m])
            /\ (m \notin DOMAIN jobs /\ m \in DOMAIN jobs') => ScheduleCall(m)
            /\ TickStarts(m) => m \in DOMAIN jobs]_vars
    /\ \A m \in MonitorIds :
            (m \notin DOMAIN jobs /\ tick[m] # Idle) ~> (tick[m] = Idle)

\* the monitor was paused and its job removed while a tick that had loaded
\* the active monitor was waiting to record its result
C22_Witness ==
    \E m \in DOMAIN monitors :
        /\ pending[m] = {}
        /\ ~monitors[m].is_active
        /\ m \notin DOMAIN jobs
        /\ tick[m].pc = "recording"
        /\ tick[m].monitor.is_active

\* the step is a step of the tick of m
TickStepOf(m) == tick'[m] # tick[m]

\* the step leaves what belongs to monitor k as it is
MonitorUntouched(k) ==
    /\ k \in DOMAIN monitors <=> k \in DOMAIN monitors'
    /\ k \in DOMAIN monitors => monitors'[k] = monitors[k]
    /\ RowsOf(check_results', k) = RowsOf(check_results, k)
    /\ RowsOf(incidents', k) = RowsOf(incidents, k)
    /\ tick'[k] = tick[k]
    /\ k \in DOMAIN jobs <=> k \in DOMAIN jobs'

\* C23: a step of a tick of m leaves the row, the results, the incidents and
\* the tick of every other monitor as they are, whether the step commits or
\* fails; and the commit of a tick whose monitor is stored adds its result
\* whatever became of the ticks of the other monitors.
C23_TickTouchesOwnMonitorOnly ==
    [][\A m \in MonitorIds :
        /\ TickStepOf(m) => \A k \in MonitorIds \ {m} : MonitorUntouched(k)
        /\ (tick[m].pc = "recording" /\ TickStepOf(m) /\ m \in DOMAIN monitors)
           => Len(RowsOf(check_results', m)) = Len(RowsOf(check_results, m)) + 1]_vars

\* the first monitor was deleted while its tick was waiting to commit, and
\* the tick of the second monitor, which is down with its incident ongoing,
\* is waiting to commit an up result
C23_Witness ==
    /\ "m1" \notin DOMAIN monitors
    /\ tick["m1"].pc = "recording"
    /\ "m2" \in DOMAIN monitors
    /\ tick["m2"].pc = "recording"
    /\ tick["m2"].out.status = "up"
    /\ Len(OngoingOf(incidents, "m2")) = 1

\* the downtimes logged by the recovery alerts
LoggedDowntimes ==
    {[s |-> alerts[i].duration, text |-> alerts[i].downtime] :
        i \in {j \in 1..Len(alerts) : alerts[j].kind = "recovery"}}

\* text is the one part <<N unit>>
OnePart(text, n, unit) == text = <<[n |-> n, unit |-> unit]>>

\* text is the two parts <<N1 unit1, N2 unit2>>
TwoParts(text, n1, unit1, n2, unit2) ==
    text = <<[n |-> n1, unit |-> unit1], [n |-> n2, unit |-> unit2]>>

\* C24: a downtime of s whole seconds is printed as 'Ns' when s < 60; as 'Nm'
\* with N = s div 60 when 60 <= s < 3600; as 'Hh Mm', H whole hours and M
\* whole minutes beyond them, when 3600 <= s < 86400, and as 'Hh' when M = 0;
\* as 'Dd Hh', D whole days and H whole hours beyond them, when s >= 86400,
\* and as 'Dd' when H = 0.
C24_FormatDuration ==
    \A d \in LoggedDowntimes :
        LET s == d.s
        IN /\ s < 60 => OnePart(d.text, s, "s")
           /\ (60 <= s /\ s < 3600) => OnePart(d.text, s \div 60, "m")
           /\ (3600 <= s /\ s < 86400) =>
                \E H \in 1..23, M \in 0..59 :
                    /\ H * 3600 + M * 60 <= s
                    /\ s < H * 3600 + (M + 1) * 60
                    /\ IF M = 0 THEN OnePart(d.text, H, "h")
                       ELSE TwoParts(d.text, H, "h", M, "m")
           /\ s >= 86400 =>
                \E D \in 1..(s \div 86400), H \in 0..23 :
                    /\ D * 86400 + H * 3600 <= s
                    /\ s < D * 86400 + (H + 1) * 3600
                    /\ IF H = 0 THEN OnePart(d.text, D, "d")
                       ELSE TwoParts(d.text, D, "d", H, "h")

\* a downtime of one hour and 59 seconds was logged: the minutes are zero
\* and left out
C24_Witness ==
    \E d \in LoggedDowntimes : d.s = 3659 /\ Len(d.text) = 1

\* what the plan of a user allows
MaxMonitors(user) == get_plan_limits(UserPlan[user]).max_monitors

\* C25: the number of monitors owned by a user never exceeds the max_monitors
\* of the user's plan, also when several create_monitor requests of the user
\* are handled concurrently.
C25_CountWithinPlan ==
    \A user \in Users : Cardinality(OwnedBy(user)) <= MaxMonitors(user)

\* the smallest check_interval the plan of a user allows
MinInterval(user) == get_plan_limits(UserPlan[user]).min_check_interval

\* the step stores a check_interval for m: the row is new or its interval
\* changes
StoresInterval(m) ==
    /\ m \in DOMAIN monitors'
    /\ m \in DOMAIN monitors => monitors'[m].check_interval # monitors[m].check_interval

\* the step schedules or replaces the job of m
SetsJob(m) ==
    /\ m \in DOMAIN jobs'
    /\ m \in DOMAIN jobs => jobs'[m] # jobs[m]

\* C26: no request stores a check_interval below the minimum of the owner's
\* plan and none schedules or replaces a job with such an interval (a create
\* or an update that asks for one is answered 403 and changes nothing); hence
\* every stored monitor's check_interval is at least its owner's minimum.
C26_IntervalWithinPlan ==
    /\ [][\A m \in MonitorIds :
            /\ StoresInterval(m)
               => monitors'[m].check_interval >= MinInterval(monitors'[m].user_id)
            /\ (SetsJob(m) /\ m \in DOMAIN monitors)
               => jobs'[m].interval >= MinInterval(monitors[m].user_id)]_vars
    /\ [](\A m \in DOMAIN monitors :
            monitors[m].check_interval >= MinInterval(monitors[m].user_id))

\* a monitor of a user whose plan is not in the table is stored and
\* scheduled with the minimum of the free plan, has been checked, and a
\* shorter interval can be asked for
C26_Witness ==
    \E m \in DOMAIN monitors, interval \in Intervals :
        /\ UserPlan[monitors[m].user_id] \notin DOMAIN PLAN_LIMITS
        /\ plan_forbids_interval(monitors[m].user_id, interval)
        /\ monitors[m].check_interval = MinInterval(monitors[m].user_id)
        /\ pending[m] = {}
        /\ m \in DOMAIN jobs
        /\ Len(RowsOf(check_results, m)) > 0

\* the users other than the owner of stored monitor m
Strangers(m) == Users \ {monitors[m].user_id}

\* C27: list_monitors gives a user the monitors of that user only; get,
\* results and uptime requests of a user for a monitor of another user are
\* answered 404; and an update or delete request of a user for a monitor of
\* another user changes nothing: not the monitor, its job, its results or
\* its incidents.
C27_IsolatedBetweenUsers ==
    /\ [](\A user \in Users :
            /\ list_monitors(monitors, user) = OwnedBy(user)
            /\ \A m \in DOMAIN monitors \ OwnedBy(user) :
                /\ get_monitor(monitors, m, user).status = 404
                /\ get_check_results(monitors, check_results, m, user, 24, now).status = 404
                /\ get_uptime_stats(monitors, check_results, incidents, m, user,
                                    24, now).status = 404)
    /\ [][\A m \in DOMAIN monitors : \A user \in Strangers(m) :
            (update_monitor_by(m, user) \/ delete_monitor_by(m, user))
                => UNCHANGED vars]_vars

\* the monitor of the pro user has a job and a result; the free user, who
\* owns the other monitor, is answered 404 for it and the pro user 200
C27_Witness ==
    /\ DOMAIN monitors = {"m1", "m2"}
    /\ "m2" \in DOMAIN jobs
    /\ Len(RowsOf(check_results, "m2")) = 1
    /\ get_monitor(monitors, "m2", "u1").status = 404
    /\ get_monitor(monitors, "m2", "u2").status = 200
    /\ get_check_results(monitors, check_results, "m2", "u2", 24, now).results
            = RowsOf(check_results, "m2")
    /\ list_monitors(monitors, "u1") = {"m1"}

\* the fields of a monitor row that record what the checks found
StatusFields == {"current_status", "consecutive_failures", "last_checked_at"}

\* the step is the commit of an update request for m
UpdateCommit(m) == \E user \in Users : update_monitor_by(m, user)

\* the step is the commit of a tick of m (perform_check, lines 70-96)
CheckCommit(m) == tick[m].pc = "recording" /\ tick'[m] # tick[m]

\* C28: the commit of an update request changes, of the row, only fields of
\* the request, and never current_status, consecutive_failures or
\* last_checked_at; the scheduler call that follows changes no row; and
\* these three fields of a stored monitor change only in the commit of a
\* tick, so that a monitor that is paused and resumed keeps its status and
\* its failure count.
C28_UpdateKeepsStatus ==
    [][\A m \in DOMAIN monitors :
        /\ UpdateCommit(m)
           => /\ \E body \in UpdateBodies :
                    \A f \in DOMAIN monitors[m] \ DOMAIN body :
                        monitors'[m][f] = monitors[m][f]
              /\ \A f \in StatusFields : monitors'[m][f] = monitors[m][f]
        /\ ("update" \in pending[m] /\ "update" \notin pending'[m])
           => monitors' = monitors
        /\ (m \in DOMAIN monitors' /\ \E f \in StatusFields :
                                        monitors'[m][f] # monitors[m][f])
           => CheckCommit(m)]_vars

\* a monitor that failed twice was paused, and the request that resumes it
\* has been committed: the row still has its status and its two failures
C28_Witness ==
    \E m \in DOMAIN monitors :
        /\ monitors[m].is_active
        /\ m \notin DOMAIN jobs
        /\ pending[m] = {"update"}
        /\ tick[m] = Idle
        /\ monitors[m].current_status = "up"
        /\ monitors[m].consecutive_failures = 2

\* C29: whenever a monitor is down and no tick of it is in flight, exactly
\* one ongoing incident of the monitor exists, however the monitor became
\* down (also by Threshold failures in a row from the initial unknown).
C29_DownHasOneOngoing ==
    \A m \in DOMAIN monitors :
        (monitors[m].current_status = "down" /\ tick[m] = Idle)
            => Len(OngoingOf(incidents, m)) = 1

\* the places of a history at which a monitor went from up to down: the
\* Threshold-th down result in a row after an up result
UpToDown(rs) ==
    {n \in (Threshold + 1)..Len(rs) :
        rs[n - Threshold].status = "up" /\ AllDown(rs, n - Threshold + 1, n)}

\* the down alerts logged for monitor m
DownAlerts(m) ==
    SelectSeq(alerts, LAMBDA a : a.kind = "down" /\ a.monitor_id = m)

\* C30: between ticks a monitor has as many incidents and as many down
\* alerts as it went from up to down; the commit of a tick that finds the
\* monitor as it was (down and still down, or up and still up) ends the tick
\* with no incident created or resolved and no alert; and incidents and
\* alerts change only in a tick that is handling a change of status.
C30_OncePerTransition ==
    /\ [](\A m \in DOMAIN monitors :
            tick[m] = Idle
            => /\ Len(RowsOf(incidents, m)) = Cardinality(UpToDown(History(m)))
               /\ Len(DownAlerts(m)) = Cardinality(UpToDown(History(m))))
    /\ [][\A m \in DOMAIN monitors :
            /\ (/\ CheckCommit(m)
                /\ tick[m].monitor.current_status \in {"up", "down"}
                /\ monitors'[m].current_status = tick[m].monitor.current_status)
               => /\ tick'[m] = Idle
                  /\ UNCHANGED <<incidents, alerts>>
            /\ (incidents' # incidents \/ alerts' # alerts)
               => \E k \in MonitorIds :
                    /\ tick[k].pc \in {"transition", "alert"}
                    /\ tick[k].monitor.current_status \in {"up", "down"}]_vars

\* a monitor went from up to down and a further down result was recorded:
\* one incident, ongoing, and one down alert
C30_Witness ==
    \E m \in DOMAIN monitors :
        LET rs == History(m)
        IN /\ tick[m] = Idle
           /\ Len(rs) = Threshold + 2
           /\ rs[1].status = "up"
           /\ AllDown(rs, 2, Threshold + 2)
           /\ Len(RowsOf(incidents, m)) = 1
           /\ Len(DownAlerts(m)) = 1

\* the step abandons the tick of m on a commit that raises
Abandoned(m) ==
    \/ perform_check_record_fails(m)
    \/ handle_status_transition_fails(m)

\* the monitor went from up to down and at least one tick after the tick of
\* that transition has committed a further down result
DownSinceEarlierTick(m) ==
    LET rs == History(m)
        k  == TrailingDowns(rs)
    IN /\ monitors[m].current_status = "down"
       /\ k > Threshold
       /\ Len(rs) > k
       /\ rs[Len(rs) - k].status = "up"

\* C31: a tick that is abandoned on a commit that raises leaves the monitors,
\* the results and the incidents as they were committed, and a later tick
\* completes what was left undone: once a tick after the up-to-down
\* transition has ended, the monitor has its ongoing incident, also when the
\* insert of the incident failed in the tick of the transition.
C31_LaterTickCompletes ==
    /\ [][\A m \in MonitorIds :
            Abandoned(m) => UNCHANGED <<monitors, check_results, incidents>>]_vars
    /\ [](\A m \in DOMAIN monitors :
            (tick[m] = Idle /\ DownSinceEarlierTick(m))
                => Len(OngoingOf(incidents, m)) = 1)

\* the earliest started_at of a sequence of incidents that is not empty
EarliestStart(rows) ==
    CHOOSE t \in {rows[i].started_at : i \in 1..Len(rows)} :
        \A i \in 1..Len(rows) : t <= rows[i].started_at

\* the step is the commit of the resolution in a tick of m that found the
\* monitor up after down
ResolveCommit(m) ==
    /\ tick[m].pc = "transition"
    /\ tick[m].previous_status = "down"
    /\ tick[m].monitor.current_status = "up"
    /\ tick'[m] # tick[m]
    /\ ~handle_status_transition_fails(m)

\* C32: the tick that resolves the ongoing incidents of a monitor passes to
\* the recovery alert the time from the earliest started_at among them to
\* the instant of the resolution, also when it resolves more than one, and
\* the alert is logged with that duration; a tick that finds no ongoing
\* incident ends without a recovery alert.
C32_DowntimeFromEarliest ==
    [][\A m \in MonitorIds :
        /\ (ResolveCommit(m) /\ Len(OngoingOf(incidents, m)) > 0)
           => /\ tick'[m].pc = "alert"
              /\ tick'[m].alert.kind = "recovery"
              /\ tick'[m].alert.duration
                    = now' - EarliestStart(OngoingOf(incidents, m))
        /\ (ResolveCommit(m) /\ Len(OngoingOf(incidents, m)) = 0)
           => (tick'[m] = Idle /\ alerts' = alerts)
        /\ (tick[m].pc = "alert" /\ tick[m].alert.kind = "recovery"
                /\ tick'[m] # tick[m])
           => /\ Len(alerts') = Len(alerts) + 1
              /\ alerts'[Len(alerts')].kind = "recovery"
              /\ alerts'[Len(alerts')].duration = tick[m].alert.duration]_vars

\* a tick is about to resolve two ongoing incidents of a monitor that were
\* opened at different instants
C32_Witness ==
    \E m \in DOMAIN monitors :
        LET ongoing == OngoingOf(incidents, m)
        IN /\ tick[m].pc = "transition"
           /\ tick[m].previous_status = "down"
           /\ tick[m].monitor.current_status = "up"
           /\ Len(ongoing) = 2
           /\ ongoing[1].started_at < ongoing[2].started_at

\* the step is the notifier's step of a tick of m
AlertStep(m) == tick[m].pc = "alert" /\ tick'[m] # tick[m]

\* the monitor as it would be if the row of its owner were gone
Orphaned(monitor) == [monitor EXCEPT !.user_id = "nobody"]

\* C33: every line of the notifier's log is addressed to a user who exists
\* and whose plan has email_alerts; the notifier's step logs an alert exactly
\* when the owner of the monitor is such a user, it would log nothing for the
\* same monitor without its owner, and whether it logs or not it leaves the
\* monitors, the results and the incidents as the tick committed them.
C33_AlertOnlyWithFeature ==
    /\ [](\A i \in 1..Len(alerts) :
            /\ alerts[i].to \in Users
            /\ "email_alerts" \in get_plan_limits(UserPlan[alerts[i].to]).features)
    /\ [][\A m \in MonitorIds :
            AlertStep(m)
            => /\ UNCHANGED <<monitors, check_results, incidents>>
               /\ alerts' # alerts
                    <=> /\ tick[m].monitor.user_id \in Users
                        /\ "email_alerts" \in
                              get_plan_limits(UserPlan[tick[m].monitor.user_id]).features
               /\ send_down_alert(alerts, m, Orphaned(tick[m].monitor), None) = alerts
               /\ send_recovery_alert(alerts, m, Orphaned(tick[m].monitor), 0)
                    = alerts]_vars

\* the notifier is about to log the recovery of a monitor whose owner is on
\* the free plan, after it logged that the monitor was down
C33_Witness ==
    \E m \in DOMAIN monitors :
        /\ tick[m].pc = "alert"
        /\ tick[m].alert.kind = "recovery"
        /\ UserPlan[monitors[m].user_id] = "free"
        /\ Len(DownAlerts(m)) = 1

\* the incident row as a resolution at the new reading of the clock leaves it
ResolvedRow(row) == [row EXCEPT !.status = "resolved", !.resolved_at = Some(now')]

\* C34: an incident is ongoing without resolved_at or resolved with it, and
\* the pipeline, commits that raise included, keeps every incident row: a
\* row stays as it is or goes from ongoing to resolved, a resolved row never
\* changes again, and rows are only added, as ongoing ones.
C34_IncidentStatusMonotone ==
    /\ [](\A i \in 1..Len(incidents) :
            /\ incidents[i].status \in {"ongoing", "resolved"}
            /\ incidents[i].status = "resolved" <=> incidents[i].resolved_at # None)
    /\ [][/\ Len(incidents') >= Len(incidents)
          /\ \A i \in 1..Len(incidents) :
                \/ incidents'[i] = incidents[i]
                \/ /\ incidents[i].status = "ongoing"
                   /\ incidents'[i] = ResolvedRow(incidents[i])
          /\ \A i \in (Len(incidents) + 1)..Len(incidents') :
                incidents'[i].status = "ongoing"]_vars

\* a resolved incident and an ongoing one of the same monitor: the monitor
\* went down again after an incident of it was resolved
C34_Witness ==
    \E i, j \in 1..Len(incidents) :
        /\ i < j
        /\ incidents[i].monitor_id = incidents[j].monitor_id
        /\ incidents[i].status = "resolved"
        /\ incidents[j].status = "ongoing"

\* C35: the failure count of a stored monitor is never negative and stays
\* below Threshold as long as the monitor is up; the commit of a tick with an
\* up result stores 0, and the commit that brings the count of an up monitor
\* to Threshold stores down with it.
C35_UpBelowThreshold ==
    /\ [](\A m \in DOMAIN monitors :
            /\ monitors[m].consecutive_failures >= 0
            /\ monitors[m].current_status = "up"
                 => monitors[m].consecutive_failures < Threshold)
    /\ [][\A m \in DOMAIN monitors :
            (CheckCommit(m) /\ monitors' # monitors)
            => /\ tick[m].out.status = "up"
                    => monitors'[m].consecutive_failures = 0
               /\ (monitors[m].current_status = "up"
                     /\ monitors'[m].consecutive_failures >= Threshold)
                    => monitors'[m].current_status = "down"]_vars

\* the tick that took an up monitor from Threshold - 1 failures to Threshold
\* has committed: the stored status is down
C35_Witness ==
    \E m \in DOMAIN monitors :
        /\ tick[m].pc = "transition"
        /\ tick[m].previous_status = "up"
        /\ monitors[m].consecutive_failures = Threshold
        /\ monitors[m].current_status = "down"

LastDown(rs, k) == k <= Len(rs) /\ AllDown(rs, Len(rs) - k + 1, Len(rs))

\* C37: when invocations of perform_check for one monitor overlap, the
\* monitor never has two ongoing incidents, and once both invocations are
\* over the failure count is at least the number of down results the monitor
\* has recorded in a row: no increment is lost.
C37_OverlapIsSafe ==
    \A m \in DOMAIN monitors :
        /\ Len(OngoingOf(incidents, m)) <= 1
        /\ (tick[m] = Idle /\ manual[m] = Idle)
            => \A k \in 1..Len(History(m)) :
                  LastDown(History(m), k) => monitors[m].consecutive_failures >= k

\* C38: a step of a tick of a monitor that is stored as inactive, or is not
\* stored any more, adds no check result, changes no monitor and adds or
\* resolves no incident, also when the tick read the monitor as active before
\* the pause or the deletion was committed.
C38_InactiveUnderInterleaving ==
    [][\A m \in MonitorIds :
        (TickStepOf(m) /\ (m \notin DOMAIN monitors \/ ~monitors[m].is_active))
        => UNCHANGED <<monitors, check_results, incidents>>]_vars

\* the monitor is active, its job is scheduled and a check can still be made
AwaitsCheck(m) ==
    /\ m \in DOMAIN monitors
    /\ monitors[m].is_active
    /\ m \in DOMAIN jobs
    /\ Len(check_results) < MaxDueChecks

\* C39: a monitor that is active and scheduled gets a tick started, unless it
\* stops being active or scheduled, whatever update requests that leave its
\* interval unchanged arrive in between.
C39_EventuallyChecked ==
    \A m \in DueInputs.ids :
        AwaitsCheck(m) ~> (tick[m] # Idle \/ ~AwaitsCheck(m))

====
